---- MODULE Spec2Model ----
(***************************************************************************)
(* A model of idb-batch (src/src/index.js): transactionalBatch driving a   *)
(* plan of store-operation units and task callbacks through one IndexedDB  *)
(* transaction, in serial or parallel mode.                                *)
(*                                                                         *)
(* The program is event driven and single threaded: every action below is  *)
(* one run-to-completion piece of JavaScript (the transactionalBatch call  *)
(* itself, one request's success or error handler, a promise reaction, a   *)
(* transaction event listener) together with everything it calls.          *)
(*                                                                         *)
(* The IndexedDB engine is the environment.  It is modelled at its         *)
(* interface: requests placed on a transaction are executed in the order   *)
(* in which they were placed, a request succeeds or fails, a transaction   *)
(* with no request left completes, an aborted one reverts its writes.      *)
(***************************************************************************)
EXTENDS Integers, Sequences, FiniteSets, TLC

VARIABLES
  opts,          \* [parallel, resolveEarly, extraStores, adapterCb]: the options of the call
  engaged,       \* isSafari or shimmed indexedDB: the manual unique check runs
  plan,          \* storeOpsArr: the sequence of plan units
  phase,         \* "idle" before the call, "called" after
  iter,          \* storeOpsArrIter: number of plan units taken so far
  storeIter,     \* storeOpsKeys of each unit: number of stores taken so far
  ctx,           \* <<ct, si>> -> [ops, moveCt, successCt]: the closure of one store
  storeResults,  \* <<ct, storeName>> -> result list (the storeResults objects)
  results,       \* ct -> slot of the results array
  queue,         \* the transaction's request list, oldest first
  checks,        \* the closures of the countUniqueIndexes calls made so far
  before,        \* the stores as they were when the transaction was opened
  store,         \* storeName -> (key -> value): the stores as the transaction sees them
  txState,       \* "active", "aborting" (abort() called), "aborted", "complete"
  outcome,       \* the promise of the call: [state, err]
  deferreds,     \* ct -> state of the deferred value returned by task ct
  caller,        \* what became of the request the caller issues after resolution
  faults,        \* number of requests the engine has failed on its own
  trace,         \* history: the orchestrator's steps, in order
  args,          \* the entry point called and the shape of its arguments
  delivered,     \* what the entry point gave its caller: an exception, or its promise
  tr,            \* the first argument and local variable `tr`: the database, or a transaction
  opened,        \* the transactions the database was asked for: [scope, mode] each
  calls,         \* the callbacks the orchestrator has called: [ct, fn, tx] each
  listed         \* what a call of getStoreNames on the plan returned

vars ==
  <<opts, engaged, plan, phase, iter, storeIter, ctx, storeResults, results, queue,
    checks, before, store, txState, outcome, deferreds, caller, faults, trace,
    args, delivered, tr, opened, calls, listed>>

-----------------------------------------------------------------------------
(* Bounds of the model *)

\* longest plan (number of plan units)
MaxUnits == 2

\* longest generated operation list (elements of an array, entries of an object)
MaxLen == 2

\* number of requests the engine may fail for reasons of its own
MaxFaults == 1

-----------------------------------------------------------------------------
(* JavaScript values *)

Undef == "undefined"

\* JavaScript truthiness of a primitive token ("0" is the number 0)
Truthy(p) == p \notin {"undefined", "null", "0", "", "false"}

UndefinedValue == [kind |-> "undefined"]

NullValue == [kind |-> "null"]

\* a primitive value (a key, a string, a number)
Prim(p) == [kind |-> "prim", p |-> p]

\* a string value, as its sequence of characters; "NUL" is the character \0
Str(chars) == [kind |-> "str", chars |-> chars]

\* an object value with the fields the indexes of the schema read
Rec(title, author) == [kind |-> "rec", f |-> [title |-> title, author |-> author]]

\* val[field]: reading a property of a value; undefined[...] and null[...] throw
CanRead(val) == val.kind \notin {"undefined", "null"}

\* a magazine: an object value that holds its primary key in the field id
Mag(id, name, frequency) ==
  [kind |-> "rec", f |-> [id |-> id, name |-> name, frequency |-> frequency]]

\* an entry of the catalog: an object value with an isbn and a title
Entry(isbn, title) == [kind |-> "rec", f |-> [isbn |-> isbn, title |-> title]]

Field(val, field) ==
  IF val.kind = "rec" /\ field \in DOMAIN val.f THEN val.f[field] ELSE Undef

-----------------------------------------------------------------------------
(* The schema of the database, as the test suite declares it *)

NoKeyPath == "none"

Schema(storeName) ==
  IF storeName = "books"
  THEN [keyPath |-> NoKeyPath,
        indexes |-> << [name |-> "byTitle", keyPath |-> <<"title">>,
                        compound |-> FALSE, unique |-> TRUE],
                       [name |-> "byAuthor", keyPath |-> <<"author">>,
                        compound |-> FALSE, unique |-> FALSE] >>]
  ELSE IF storeName = "magazines"
  THEN [keyPath |-> "id",
        indexes |-> << [name |-> "byName", keyPath |-> <<"name">>,
                        compound |-> FALSE, unique |-> FALSE],
                       [name |-> "byNameAndFrequency", keyPath |-> <<"name", "frequency">>,
                        compound |-> TRUE, unique |-> TRUE] >>]
  ELSE IF storeName = "catalog"
  THEN [keyPath |-> NoKeyPath,
        indexes |-> << [name |-> "byIsbn", keyPath |-> <<"isbn">>,
                        compound |-> FALSE, unique |-> TRUE],
                       [name |-> "byTitle", keyPath |-> <<"title">>,
                        compound |-> FALSE, unique |-> TRUE] >>]
  ELSE [keyPath |-> NoKeyPath,
        indexes |-> << >>]

StoreNames == {"books", "magazines", "catalog", "storage"}

\* the key under which a record is listed in an index, << >> when it is not listed
RecordIndexKey(index, val) ==
  LET comps == [i \in 1..Len(index.keyPath) |-> Field(val, index.keyPath[i])]
  IN  IF \E i \in 1..Len(comps) : comps[i] = Undef THEN << >> ELSE comps

\* the rank of a key in the engine's key order
KeyRank(k) ==
  CASE k = "0" -> 0 [] k = "1" -> 1 [] k = "2" -> 2 [] k = "3" -> 3 [] OTHER -> 4

\* IDBIndex.getKey: the primary key of the first record listed under indexKey
EngineGetKey(contents, index, indexKey) ==
  LET hits == {k \in DOMAIN contents :
                 /\ indexKey # << >>
                 /\ RecordIndexKey(index, contents[k]) = indexKey}
  IN  IF hits = {} THEN Undef
      ELSE CHOOSE k \in hits : \A j \in hits : KeyRank(k) <= KeyRank(j)

\* writing val under key would break a unique index of the store
BreaksUnique(storeName, contents, key, val) ==
  \E i \in 1..Len(Schema(storeName).indexes) :
    LET index == Schema(storeName).indexes[i]
        ik == RecordIndexKey(index, val)
    IN  /\ index.unique
        /\ ik # << >>
        /\ \E k \in DOMAIN contents : k # key /\ RecordIndexKey(index, contents[k]) = ik

\* f with key k bound to v
Bind(f, k, v) == [x \in DOMAIN f \cup {k} |-> IF x = k THEN v ELSE f[x]]

\* f without key k
Unbind(f, k) == [x \in DOMAIN f \ {k} |-> f[x]]

EmptyMap == [x \in {} |-> Undef]

-----------------------------------------------------------------------------
(* validateAndCanonicalizeOps *)

\* An error value: its message and, for 'invalid type "X"', the X
Error(msg, arg) == [msg |-> msg, arg |-> arg]

NoError == Error("", "")

OpTypes == {"add", "put", "del", "move", "copy", "clear"}

\* a descriptor { type, key, value }
Op(type, key, value) == [kind |-> "op", type |-> type, key |-> key, value |-> value, opers |-> << >>]

\* a shorthand element { <type>: oper } or { <type>: [oper, ...] }; an oper is <<key, value>>
Short(type, opers) ==
  [kind |-> "short", type |-> type, key |-> Undef, value |-> UndefinedValue, opers |-> opers]

\* an element that is not a plain object
NonObj == [kind |-> "nonobj", type |-> Undef, key |-> Undef, value |-> UndefinedValue, opers |-> << >>]

\* the forms of the `ops` argument
ClearOps == [form |-> "clear", items |-> << >>]

ArrayOps(items) == [form |-> "array", items |-> items]

\* a plain object, as the sequence of its <<key, value>> entries in Object.keys order
ObjectOps(entries) ==
  [form |-> "object",
   items |-> [j \in 1..Len(entries) |->
                [kind |-> "entry", type |-> Undef, key |-> entries[j][1],
                 value |-> entries[j][2], opers |-> << >>]]]

\* anything else (a JSON string, a number)
OtherOps == [form |-> "other", items |-> << >>]

\* Array.prototype.splice(start, deleteCount, ...items), start counted from 1
Splice(arr, start, deleteCount, items) ==
  SubSeq(arr, 1, start - 1) \o items \o SubSeq(arr, start + deleteCount, Len(arr))

\* the rule of line 309 applied to its own result: two leading \0 are removed, and a
\* doubled \0 deletes
ObjectEntryOpTwice(entry) ==
  LET key == entry.key
      v == entry.value
      Strip(x) == IF x.kind = "str" /\ Len(x.chars) > 0 /\ Head(x.chars) = "NUL"
                  THEN Str(Tail(x.chars)) ELSE x
      type == IF v = Str(<<"NUL">>) \/ Strip(v) = Str(<<"NUL">>) THEN "del" ELSE "put"
  IN  Op(type, key, Strip(Strip(v)))

\* line 309: the descriptor made from one entry of a plain object
ObjectEntryOp(entry) ==
  LET key == entry.key
      v == entry.value
      value == IF v.kind = "str" /\ Len(v.chars) > 0 /\ Head(v.chars) = "NUL"
               THEN Str(Tail(v.chars))
               ELSE v
      type == IF v = Str(<<"NUL">>) THEN "del" ELSE "put"
  IN  Op(type, key, value)

\* checkOp: the type of a descriptor is one of the six
CheckOpFails(type) == type \notin OpTypes

\* the opers of a shorthand element, each tagged with the element's type
TagOpers(type, opers) == [j \in 1..Len(opers) |-> Op(type, opers[j][1], opers[j][2])]

\* ops.forEach of lines 315-330: i is the index visited (from 1), len the length
\* the array had when forEach began; forEach skips indexes past the current end
RECURSIVE ForEachOp(_, _, _)
ForEachOp(ops, i, len) ==
  IF i > len \/ i > Len(ops) THEN [ok |-> TRUE, ops |-> ops, err |-> NoError]
  ELSE LET op == ops[i] IN
    IF op.kind = "nonobj"
    THEN [ok |-> FALSE, ops |-> ops, err |-> Error("invalid op", "")]
    ELSE IF op.kind = "short"
    THEN IF op.opers # << >> /\ CheckOpFails(op.type)
         THEN [ok |-> FALSE, ops |-> ops, err |-> Error("invalid type", op.type)]
         ELSE ForEachOp(Splice(ops, i, 1, TagOpers(op.type, op.opers)), i + 1, len)
    ELSE IF CheckOpFails(op.type)
    THEN [ok |-> FALSE, ops |-> ops, err |-> Error("invalid type", op.type)]
    ELSE ForEachOp(ops, i + 1, len)

\* validateAndCanonicalizeOps(ops): [ok, ops, err]; not ok means it throws err
ValidateAndCanonicalizeOps(rawOps) ==
  IF rawOps.form = "other"
  THEN [ok |-> FALSE, ops |-> << >>, err |-> Error("invalid \"ops\"", "")]
  ELSE LET ops == CASE rawOps.form = "clear" -> << Op("clear", Undef, UndefinedValue) >>
                    [] rawOps.form = "object" ->
                         [j \in 1..Len(rawOps.items) |-> ObjectEntryOp(rawOps.items[j])]
                    [] OTHER -> rawOps.items
       IN  ForEachOp(ops, 1, Len(ops))

-----------------------------------------------------------------------------
(* Plan units *)

\* a Task Unit: a callback; `does` is what the callback does with the transaction
\*   "plain"       returns undefined
\*   "deferred"    returns a promise that settles on its own (a timer), outside the transaction
\*   "deferredReq" places a request of its own and returns a promise fulfilled by its success
\*   "abort"       calls tr.abort() and returns undefined
\*   "throw"       throws
Task(does) == [kind |-> "task", does |-> does, stores |-> << >>]

\* a Store-Ops Unit: the <<storeName, ops>> entries of the object, in Object.keys order
StoreOps(stores) == [kind |-> "ops", does |-> "", stores |-> stores]

-----------------------------------------------------------------------------
(* The entry points and their arguments *)

\* a call of transactionalBatch: arguments.length and the form of storeOpsArr (an
\* array of units, one plain object, or something else); the units are in `plan`;
\* handle tells what the first argument is: a database ("db") or a transaction ("tx")
TbCall(argc, planForm) ==
  [entry |-> "transactionalBatch", argc |-> argc, planForm |-> planForm,
   storeName |-> "", ops |-> OtherOps, handle |-> "db"]

\* a storeName argument that is not a string
NotAString == "notAString"

\* a call of batch: arguments.length, the storeName and the ops arguments
BatchOf(argc, storeName, ops) ==
  [entry |-> "batch", argc |-> argc, planForm |-> "object", storeName |-> storeName,
   ops |-> ops, handle |-> "db"]

\* transactionalBatch(db, [unit, ...], opts)
PlanCall == TbCall(3, "array")

\* line 83: the default of the opts parameter (extraStores: [], adapterCb: null)
DefaultOpts ==
  [parallel |-> FALSE, resolveEarly |-> FALSE, extraStores |-> << >>, adapterCb |-> FALSE]

\* the first argument: a database handle (it has createObjectStore, line 88) ...
Database == [kind |-> "db", id |-> 0, scope |-> << >>, mode |-> ""]

\* ... or a transaction: id 0 is one the caller supplies, id n the n-th one the
\* database handle opened
Transaction(id, scope, mode) == [kind |-> "tx", id |-> id, scope |-> scope, mode |-> mode]

\* getStoreNames has not been called
NotAsked == [called |-> FALSE, value |-> << >>]

\* Object.keys(opObj): the store names of a Store-Ops Unit; a function has no keys
ObjectKeys(opObj) ==
  IF opObj.kind = "task" THEN << >>
  ELSE [i \in 1..Len(opObj.stores) |-> opObj.stores[i][1]]

\* lines 48-51: storeOpsArr.reduce((storeNames, opObj) => storeNames.concat(...), [])
RECURSIVE ReduceKeys(_, _)
ReduceKeys(storeNames, storeOpsArr) ==
  IF storeOpsArr = << >> THEN storeNames
  ELSE ReduceKeys(storeNames \o ObjectKeys(Head(storeOpsArr)), Tail(storeOpsArr))

\* the plan argument: its form, and the unit (a plain object) or the units (an array)
PlanArg(form, units) == [form |-> form, units |-> units]

\* lines 46-52: getStoreNames(storeOpsArr); line 47 wraps a plain object in an array
GetStoreNames(storeOpsArr) ==
  LET arr == IF storeOpsArr.form = "object" THEN << Head(storeOpsArr.units) >>
             ELSE storeOpsArr.units
  IN  ReduceKeys(<< >>, arr)

-----------------------------------------------------------------------------
(* The running call: the mutable state one piece of JavaScript works on.     *)
(* inTx: the transaction is active while this piece runs (the call that      *)
(* created it, or one of its requests' handlers). thrown: an exception is    *)
(* propagating.                                                              *)

Cur(inTx) ==
  [iter |-> iter, storeIter |-> storeIter, ctx |-> ctx, storeResults |-> storeResults,
   results |-> results, queue |-> queue, checks |-> checks, txState |-> txState,
   outcome |-> outcome, deferreds |-> deferreds, trace |-> trace,
   delivered |-> delivered, tr |-> tr, opened |-> opened, calls |-> calls,
   inTx |-> inTx, thrown |-> FALSE, thrownErr |-> NoError]

Event(ev, ct, si, opIndex, type, key) ==
  [ev |-> ev, ct |-> ct, si |-> si, opIndex |-> opIndex, type |-> type, key |-> key]

Log(S, e) == [S EXCEPT !.trace = Append(@, e)]

\* resolve(results): settles the promise unless it is settled
Resolve(S) ==
  IF S.outcome.state # "pending" THEN S
  ELSE Log([S EXCEPT !.outcome = [state |-> "resolved", err |-> NoError]],
           Event("resolve", 0, 0, 0, "", Undef))

\* reject(err): settles the promise unless it is settled
Reject(S, err) ==
  IF S.outcome.state # "pending" THEN S
  ELSE Log([S EXCEPT !.outcome = [state |-> "rejected", err |-> err]],
           Event("reject", 0, 0, 0, err.msg, Undef))

Throw(S, err) == [S EXCEPT !.thrown = TRUE, !.thrownErr = err]

\* a request on the transaction and the closure of its handlers
Req(kind, ct, si, opIndex, type, storeName, key, val, check, index) ==
  [kind |-> kind, ct |-> ct, si |-> si, opIndex |-> opIndex, type |-> type,
   storeName |-> storeName, key |-> key, val |-> val, check |-> check, index |-> index,
   tx |-> 0]

\* a call of a store or index method that places a request: it throws when the
\* transaction is finished or not active
PlaceRequest(S, req) ==
  IF S.txState # "active" \/ ~S.inTx
  THEN Throw(S, Error("TransactionInactiveError", ""))
  ELSE Log([S EXCEPT !.queue = Append(@, [req EXCEPT !.tx = S.tr.id])],
           Event("dispatch", req.ct, req.si, req.opIndex, req.type, req.key))

StoreNameOf(ct, si) == plan[ct].stores[si][1]

\* a request() whose store method is called twice
RequestTwice(S, ct, si, opIndex, type, key, val) ==
  LET req == Req("write", ct, si, opIndex, type, StoreNameOf(ct, si), key, val, 0, 0)
      S1 == PlaceRequest(S, req)
  IN  IF S1.thrown THEN S1 ELSE PlaceRequest(S1, req)

\* lines 182-196, first half: request() is handed the request a store method placed
Request(S, ct, si, opIndex, type, key, val) ==
  PlaceRequest(S, Req("write", ct, si, opIndex, type, StoreNameOf(ct, si), key, val, 0, 0))

\* line 178, store[type](val, key): for a type that reached next() unvalidated the
\* call throws (no such method, or a method that refuses these arguments)
IsWriteMethod(type) == type \in {"add", "put"}

\* a callback that issues the write whatever the lookups found
UniqueCbNoCheck(S, ct, si, opIndex, type, key, val, uniqueRecordsCounter) ==
  Request(S, ct, si, opIndex, type, key, val)

\* a callback that rejects on a conflict and issues the write all the same
UniqueCbNoReturn(S, ct, si, opIndex, type, key, val, uniqueRecordsCounter) ==
  Request(IF uniqueRecordsCounter # 0
          THEN Reject(S, Error("Unique index ConstraintError", "")) ELSE S,
          ct, si, opIndex, type, key, val)

\* lines 172-179: the callback next() hands to countUniqueIndexes
UniqueCb(S, ct, si, opIndex, type, key, val, uniqueRecordsCounter) ==
  IF uniqueRecordsCounter # 0
  THEN Reject(S, Error("Unique index ConstraintError", ""))
  ELSE IF ~IsWriteMethod(type) THEN Throw(S, Error("TypeError", ""))
  ELSE Request(S, ct, si, opIndex, type, key, val)

\* lines 240-249: [index, indexVal] of every index, kept when the index is unique and
\* indexVal is truthy; indexVal is held as a sequence, of one component for a simple index
IndexVal(index, val) ==
  LET comps == [i \in 1..Len(index.keyPath) |-> Field(val, index.keyPath[i])]
  IN  IF index.compound THEN SelectSeq(comps, Truthy) ELSE comps

KeptIndex(index, val) ==
  /\ index.unique
  /\ IF index.compound THEN Len(IndexVal(index, val)) # 0 ELSE Truthy(IndexVal(index, val)[1])

KeptIndexes(storeName, val) ==
  LET all == Schema(storeName).indexes
      nums == [i \in 1..Len(all) |-> i]
      Keep(i) == KeptIndex(all[i], val)
  IN  SelectSeq(nums, Keep)

\* lines 256-264, the forEach: one getKey request per kept index
RECURSIVE PlaceLookups(_, _, _, _, _)
PlaceLookups(S, kept, n, check, c) ==
  IF n > Len(kept) \/ S.thrown THEN S
  ELSE LET index == Schema(c.storeName).indexes[kept[n]]
           req == Req("getKey", c.ct, c.si, c.opIndex, "getKey", c.storeName, c.key, c.val,
                      check, kept[n])
       IN  PlaceLookups(PlaceRequest(S, req), kept, n + 1, check, c)

\* lines 236-265: countUniqueIndexes(store, key, val, cb)
CountUniqueIndexes(S, ct, si, opIndex, type, key, val) ==
  LET storeName == StoreNameOf(ct, si) IN
  IF ~engaged THEN UniqueCb(S, ct, si, opIndex, type, key, val, 0)
  ELSE IF Len(Schema(storeName).indexes) # 0 /\ ~CanRead(val)
  THEN Throw(S, Error("TypeError", ""))
  ELSE LET kept == KeptIndexes(storeName, val) IN
    IF Len(kept) = 0 THEN UniqueCb(S, ct, si, opIndex, type, key, val, 0)
    ELSE LET c == [ct |-> ct, si |-> si, opIndex |-> opIndex, type |-> type, key |-> key,
                   val |-> val, storeName |-> storeName,
                   totalRequestsCounter |-> Len(kept), uniqueRecordsCounter |-> 0]
             S1 == [S EXCEPT !.checks = Append(@, c)]
         IN  PlaceLookups(S1, kept, 1, Len(S1.checks), c)

\* next() on an element the canonicalizer left as it was (a shorthand element, a
\* non-object): type, key and value read undefined, and line 178 (or line 244, when
\* the validator reads an index field of the value) throws
NextUnchecked(S, ct, si, opIndex) == Throw(S, Error("TypeError", ""))

\* lines 145-180: next(storeOpsIdx, opIndex); opIndex counts from 1 here
NextOp(S, ct, si, opIndex) ==
  LET ops == S.ctx[<<ct, si>>].ops IN
  IF S.thrown THEN S
  ELSE IF opIndex > Len(ops) THEN Throw(S, Error("TypeError", ""))
  ELSE LET op == ops[opIndex]
           storeName == StoreNameOf(ct, si)
       IN
    IF op.kind # "op" THEN NextUnchecked(S, ct, si, opIndex)
    ELSE IF op.type = "clear" THEN Request(S, ct, si, opIndex, "clear", Undef, UndefinedValue)
    ELSE IF op.type = "del" THEN Request(S, ct, si, opIndex, "delete", op.key, UndefinedValue)
    ELSE IF op.type \in {"move", "copy"}
    THEN PlaceRequest(S, Req("get", ct, si, opIndex, op.type, storeName, op.key, op.value, 0, 0))
    ELSE IF Truthy(op.key) /\ Schema(storeName).keyPath # NoKeyPath /\ ~CanRead(op.value)
    THEN Throw(S, Error("TypeError", ""))
    ELSE LET val == IF Truthy(op.key) /\ Schema(storeName).keyPath # NoKeyPath
                       /\ op.value.kind = "rec"
                    THEN [op.value EXCEPT !.f[Schema(storeName).keyPath] = op.key]
                    ELSE op.value
         IN  CountUniqueIndexes(S, ct, si, opIndex, op.type, op.key, val)

RECURSIVE NextAll(_, _, _, _)
\* a loop that handles the first operation of the list only
NextAllFirst(S, ct, si, i) ==
  IF S.thrown \/ i > Len(S.ctx[<<ct, si>>].ops) THEN S
  ELSE NextOp(S, ct, si, i)

\* lines 139-141: for (i = 0; i < ops.length; i++) next(ct, i)
NextAll(S, ct, si, i) ==
  IF S.thrown \/ i > Len(S.ctx[<<ct, si>>].ops) THEN S
  ELSE NextAll(NextOp(S, ct, si, i), ct, si, i + 1)


\* line 103: opts.adapterCb ? opts.adapterCb(tr, storeOpsObj) : storeOpsObj(tr)
CallOf(ct, tx) ==
  [ct |-> ct, fn |-> IF opts.adapterCb THEN "adapterCb" ELSE "callback", tx |-> tx]

\* lines 98-115, the callback of a Task Unit: its effect on the transaction and what
\* it returns; an exception it throws is caught and rejects. An adapterCb is one
\* that hands the transaction on to the callback and returns a value of its own
InvokeTask(S, ct) ==
  LET does == plan[ct].does
      S0 == [S EXCEPT !.calls = Append(@, CallOf(ct, S.tr.id))]
      S1 == Log(S0, Event("invoke", ct, 0, 0, does, Undef))
  IN  CASE does = "throw" -> Throw(S1, Error("task error", ""))
        [] does = "abort" ->
             IF S1.txState # "active" THEN Throw(S1, Error("InvalidStateError", ""))
             ELSE [S1 EXCEPT !.txState = "aborting"]
        [] does = "deferredReq" ->
             LET S2 == PlaceRequest(S1, Req("task", ct, 0, 0, "get", "", Undef,
                                            UndefinedValue, 0, 0))
             IN  IF S2.thrown \/ opts.adapterCb THEN S2
                 ELSE [S2 EXCEPT !.deferreds = Bind(@, ct, "pending")]
        [] does = "deferred" ->
             IF opts.adapterCb THEN S1 ELSE [S1 EXCEPT !.deferreds = Bind(@, ct, "pending")]
        [] OTHER -> S1

\* a `ret` that is always what the callback returns
TaskRetDirect(S, ct) == IF ct \in DOMAIN S.deferreds THEN "deferred" ELSE Undef

\* line 103, `ret`: what adapterCb returns when there is one (a value of its own
\* here), and else what the callback returns: the deferred object, or undefined
TaskRet(S, ct) ==
  IF opts.adapterCb THEN "adapted"
  ELSE IF ct \in DOMAIN S.deferreds THEN "deferred" ELSE Undef

RECURSIVE IterateStoreOps(_), IterateStores(_, _, _), IterateAll(_)

\* lines 97-143: iterateStores(ct, storeResults, storeNames, storeOpsKeys, storeOpsObj, serial)
IterateStores(S, ct, serial) ==
  IF S.thrown THEN S
  ELSE IF plan[ct].kind = "task"
  THEN LET S1 == InvokeTask(S, ct) IN
       IF S1.thrown
       THEN Reject([S1 EXCEPT !.thrown = FALSE], S1.thrownErr)
       ELSE LET ret == TaskRet(S1, ct)
                S2 == [S1 EXCEPT !.results = Bind(@, ct, [kind |-> "task", ret |-> ret])]
            IN  IF serial /\ ret # "deferred" THEN IterateStoreOps(S2) ELSE S2
  ELSE LET si == S.storeIter[ct] + 1 IN
    IF si > Len(plan[ct].stores)
    THEN IF serial THEN IterateStoreOps(S) ELSE S
    ELSE LET canon == ValidateAndCanonicalizeOps(plan[ct].stores[si][2])
             S1 == [S EXCEPT !.storeIter[ct] = si]
         IN
      IF ~canon.ok THEN Reject(S1, canon.err)
      ELSE IF S1.txState # "active" THEN Throw(S1, Error("InvalidStateError", ""))
      ELSE IF \A n \in DOMAIN S1.tr.scope : S1.tr.scope[n] # StoreNameOf(ct, si)
      THEN Throw(S1, Error("NotFoundError", ""))
      ELSE LET S2 == [S1 EXCEPT !.ctx = Bind(@, <<ct, si>>,
                         [ops |-> canon.ops, moveCt |-> 0, successCt |-> 0])]
           IN  IF serial THEN NextOp(S2, ct, si, 1)
               ELSE IterateStores(NextAll(S2, ct, si, 1), ct, serial)

\* IterateAll without the loop: only the next unit is begun
IterateAllOnce(S) ==
  IF S.thrown \/ S.iter >= Len(plan) THEN S
  ELSE LET val == S.iter + 1
           S1 == [S EXCEPT !.iter = val, !.storeIter = Bind(@, val, 0)]
       IN  IterateStores(S1, val, FALSE)

\* lines 200-206: the loop of the parallel iterateStoreOps
IterateAll(S) ==
  IF S.thrown \/ S.iter >= Len(plan) THEN S
  ELSE LET val == S.iter + 1
           S1 == [S EXCEPT !.iter = val, !.storeIter = Bind(@, val, 0)]
       IN  IterateAll(IterateStores(S1, val, FALSE))

\* IterateStoreOps resolving at its end whatever opts.resolveEarly says
IterateStoreOpsResolving(S) ==
  IF S.thrown THEN S
  ELSE IF opts.parallel
  THEN LET S1 == IterateAll(S) IN
       IF S1.thrown THEN S1 ELSE Resolve(S1)
  ELSE IF S.iter >= Len(plan)
       THEN Resolve(S)
       ELSE LET val == S.iter + 1
                S1 == [S EXCEPT !.iter = val, !.storeIter = Bind(@, val, 0)]
            IN  IterateStores(S1, val, TRUE)

\* a serial iterateStoreOps that resolves early as soon as it has begun a unit
IterateStoreOpsHasty(S) ==
  IF S.thrown THEN S
  ELSE IF opts.parallel
  THEN LET S1 == IterateAll(S) IN
       IF S1.thrown \/ ~opts.resolveEarly THEN S1 ELSE Resolve(S1)
  ELSE IF S.iter >= Len(plan)
       THEN IF opts.resolveEarly THEN Resolve(S) ELSE S
       ELSE LET val == S.iter + 1
                S1 == [S EXCEPT !.iter = val, !.storeIter = Bind(@, val, 0)]
                S2 == IterateStores(S1, val, TRUE)
            IN  IF S2.thrown \/ ~opts.resolveEarly THEN S2 ELSE Resolve(S2)

\* lines 199-219: iterateStoreOps, the parallel or the serial one
IterateStoreOps(S) ==
  IF S.thrown THEN S
  ELSE IF opts.parallel
  THEN LET S1 == IterateAll(S) IN
       IF S1.thrown \/ ~opts.resolveEarly THEN S1 ELSE Resolve(S1)
  ELSE IF S.iter >= Len(plan)
       THEN IF opts.resolveEarly THEN Resolve(S) ELSE S
       ELSE LET val == S.iter + 1
                S1 == [S EXCEPT !.iter = val, !.storeIter = Bind(@, val, 0)]
            IN  IterateStores(S1, val, TRUE)

\* an assignment that keeps one result only, whatever the position
StoreAtFirst(arr, idx, v) == <<v>>

\* arr[idx] = v for idx counted from 0; an index past the end leaves holes
StoreAt(arr, idx, v) ==
  [j \in 1..(IF idx + 1 > Len(arr) THEN idx + 1 ELSE Len(arr)) |->
     IF j = idx + 1 THEN v ELSE IF j <= Len(arr) THEN arr[j] ELSE "hole"]

\* StoreFinished satisfied by the first success
StoreFinishedEarly(c) == c.successCt >= 1

\* StoreFinished without moveCt: every request of the expanded list has succeeded
StoreFinishedAtLength(c) == c.successCt = Len(c.ops)

\* line 189: successCt === ops.length - moveCt, the store's operations are finished
StoreFinished(c) == c.successCt = Len(c.ops) - c.moveCt

\* an onsuccess that files the result under the position of its operation
WriteSuccessByPosition(S, req, result) ==
  LET at == <<req.ct, req.si>>
      rk == <<req.ct, req.storeName>>
      serial == ~opts.parallel
      list == IF rk \in DOMAIN S.storeResults THEN S.storeResults[rk] ELSE << >>
      successCt == S.ctx[at].successCt
      S1 == Log([S EXCEPT !.storeResults = Bind(@, rk, StoreAt(list, req.opIndex - 1, result)),
                          !.ctx[at].successCt = successCt + 1],
                Event("success", req.ct, req.si, req.opIndex, req.type, req.key))
  IN  IF StoreFinished(S1.ctx[at])
      THEN LET S2 == [S1 EXCEPT !.results = Bind(@, req.ct, [kind |-> "ops", ret |-> Undef])]
           IN  IF serial THEN IterateStores(S2, req.ct, serial) ELSE S2
      ELSE IF serial THEN NextOp(S1, req.ct, req.si, req.opIndex + 1) ELSE S1

\* lines 184-195: onsuccess of a write request
WriteSuccess(S, req, result) ==
  LET at == <<req.ct, req.si>>
      rk == <<req.ct, req.storeName>>
      serial == ~opts.parallel
      list == IF rk \in DOMAIN S.storeResults THEN S.storeResults[rk] ELSE << >>
      successCt == S.ctx[at].successCt
      S1 == Log([S EXCEPT !.storeResults = Bind(@, rk, StoreAt(list, successCt, result)),
                          !.ctx[at].successCt = successCt + 1],
                Event("success", req.ct, req.si, req.opIndex, req.type, req.key))
  IN  IF StoreFinished(S1.ctx[at])
      THEN LET S2 == [S1 EXCEPT !.results = Bind(@, req.ct, [kind |-> "ops", ret |-> Undef])]
           IN  IF serial THEN IterateStores(S2, req.ct, serial) ELSE S2
      ELSE IF serial THEN NextOp(S1, req.ct, req.si, req.opIndex + 1) ELSE S1

\* GetSuccess without the `!serial` of line 166: the delete of a move is issued at once
GetSuccessEager(S, req, result) ==
  LET at == <<req.ct, req.si>>
      put == Op("put", req.key, result)
      del == Op("del", req.val.p, UndefinedValue)
      ops1 == Splice(S.ctx[at].ops, req.opIndex, 1, <<put>>)
      ops2 == IF req.type = "move" THEN Splice(ops1, req.opIndex + 1, 0, <<del>>) ELSE ops1
      S1 == [S EXCEPT !.ctx[at].ops = ops2,
                      !.ctx[at].moveCt = IF req.type = "move" /\ opts.parallel THEN @ + 1 ELSE @]
      S2 == NextOp(S1, req.ct, req.si, req.opIndex)
  IN  IF req.type = "move" THEN NextOp(S2, req.ct, req.si, req.opIndex + 1) ELSE S2

\* an onsuccess that rewrites a move like a copy: no delete is injected
GetSuccessKeep(S, req, result) ==
  LET at == <<req.ct, req.si>>
      put == Op("put", req.key, result)
      S1 == [S EXCEPT !.ctx[at].ops = Splice(S.ctx[at].ops, req.opIndex, 1, <<put>>)]
  IN  NextOp(S1, req.ct, req.si, req.opIndex)

\* lines 159-167: onsuccess of the read of a move or copy
GetSuccess(S, req, result) ==
  LET at == <<req.ct, req.si>>
      serial == ~opts.parallel
      put == Op("put", req.key, result)
      del == Op("del", req.val.p, UndefinedValue)
      ops1 == Splice(S.ctx[at].ops, req.opIndex, 1, <<put>>)
      ops2 == IF req.type = "move" THEN Splice(ops1, req.opIndex + 1, 0, <<del>>) ELSE ops1
      S1 == [S EXCEPT !.ctx[at].ops = ops2,
                      !.ctx[at].moveCt = IF req.type = "move" /\ ~serial THEN @ + 1 ELSE @]
      S2 == NextOp(S1, req.ct, req.si, req.opIndex)
  IN  IF ~serial /\ req.type = "move" THEN NextOp(S2, req.ct, req.si, req.opIndex + 1) ELSE S2

\* an onsuccess that counts every record the lookup finds, the one under the key
\* being written included
GetKeySuccessAnyKey(S, req, result) ==
  LET c == S.checks[req.check]
      uniq == IF Truthy(result) THEN c.uniqueRecordsCounter + 1 ELSE c.uniqueRecordsCounter
      total == c.totalRequestsCounter - 1
      S1 == [S EXCEPT !.checks[req.check].uniqueRecordsCounter = uniq,
                      !.checks[req.check].totalRequestsCounter = total]
      verdict == Event(IF uniq # 0 THEN "conflict" ELSE "unique", c.ct, c.si, c.opIndex,
                       c.type, c.key)
  IN  IF total = 0
      THEN UniqueCb(Log(S1, verdict), c.ct, c.si, c.opIndex, c.type, c.key, c.val, uniq)
      ELSE S1

\* an onsuccess that reports the verdict at every answer, without waiting for
\* totalRequestsCounter to reach 0
GetKeySuccessAtOnce(S, req, result) ==
  LET c == S.checks[req.check]
      uniq == IF Truthy(result) /\ result # c.key
              THEN c.uniqueRecordsCounter + 1 ELSE c.uniqueRecordsCounter
      total == c.totalRequestsCounter - 1
      S1 == [S EXCEPT !.checks[req.check].uniqueRecordsCounter = uniq,
                      !.checks[req.check].totalRequestsCounter = total]
      verdict == Event(IF uniq # 0 THEN "conflict" ELSE "unique", c.ct, c.si, c.opIndex,
                       c.type, c.key)
  IN  UniqueCb(Log(S1, verdict), c.ct, c.si, c.opIndex, c.type, c.key, c.val, uniq)

\* lines 259-263: onsuccess of one getKey lookup of countUniqueIndexes
GetKeySuccess(S, req, result) ==
  LET c == S.checks[req.check]
      uniq == IF Truthy(result) /\ result # c.key
              THEN c.uniqueRecordsCounter + 1 ELSE c.uniqueRecordsCounter
      total == c.totalRequestsCounter - 1
      S1 == [S EXCEPT !.checks[req.check].uniqueRecordsCounter = uniq,
                      !.checks[req.check].totalRequestsCounter = total]
      verdict == Event(IF uniq # 0 THEN "conflict" ELSE "unique", c.ct, c.si, c.opIndex,
                       c.type, c.key)
  IN  IF total = 0
      THEN UniqueCb(Log(S1, verdict), c.ct, c.si, c.opIndex, c.type, c.key, c.val, uniq)
      ELSE S1

\* the success of a Task Unit's own request fulfils the promise the task returned;
\* line 109: in serial mode iterateStoreOps is its reaction
TaskRequestSuccess(S, req) ==
  IF req.ct \notin DOMAIN S.deferreds THEN S
  ELSE LET S1 == [S EXCEPT !.deferreds[req.ct] = "fulfilled"]
       IN  IF opts.parallel THEN S1 ELSE IterateStoreOps(S1)

-----------------------------------------------------------------------------
(* The engine: what a request does to its store, and its result *)

InitialStore == [n \in StoreNames |-> EmptyMap]

\* the database after an earlier batch left one book in it
EarlierStore == [InitialStore EXCEPT !["books"] = Bind(EmptyMap, "4", Rec("x", "q"))]

Databases == {InitialStore, EarlierStore}

\* line 178: the primary key of a write: the store reads it from the value at its
\* key path (store[type](val)), or takes the key it is handed (store[type](val, key))
EngineKey(req) ==
  IF Schema(req.storeName).keyPath # NoKeyPath
  THEN Field(req.val, Schema(req.storeName).keyPath)
  ELSE req.key

\* the engine refuses the write: the key of an add exists, or a unique index would break
NativeConstraint(req, contents) ==
  /\ req.kind = "write"
  /\ req.type \in {"add", "put"}
  /\ \/ req.type = "add" /\ EngineKey(req) \in DOMAIN contents
     \/ BreaksUnique(req.storeName, contents, EngineKey(req), req.val)

\* the contents of the request's store once the request has succeeded
EngineContents(req, contents) ==
  IF req.kind # "write" THEN contents
  ELSE CASE req.type \in {"add", "put"} -> Bind(contents, EngineKey(req), req.val)
         [] req.type = "delete" -> Unbind(contents, req.key)
         [] OTHER -> EmptyMap

\* e.target.result of a successful get, by key req.val
EngineGet(req, contents) ==
  IF req.val.kind = "prim" /\ req.val.p \in DOMAIN contents
  THEN contents[req.val.p] ELSE UndefinedValue

\* e.target.result of a successful write or getKey: a key or undefined
EngineResult(req, contents) ==
  CASE req.kind = "write" /\ req.type \in {"add", "put"} -> EngineKey(req)
    [] req.kind = "getKey" ->
         EngineGetKey(contents, Schema(req.storeName).indexes[req.index],
                      IndexVal(Schema(req.storeName).indexes[req.index], req.val))
    [] OTHER -> Undef

-----------------------------------------------------------------------------
(* Handlers *)

\* the success handler of a request
OnSuccess(S, req, contents) ==
  CASE req.kind = "write" -> WriteSuccess(S, req, EngineResult(req, contents))
    [] req.kind = "get" -> GetSuccess(S, req, EngineGet(req, contents))
    [] req.kind = "getKey" -> GetKeySuccess(S, req, EngineResult(req, contents))
    [] req.kind = "task" -> TaskRequestSuccess(S, req)
    [] OTHER -> S

\* an error handler that does nothing
OnErrorIgnored(S, req, err) == S

\* lines 285-291: handleError(reject), on the request (lines 158, 183), through the
\* callback of countUniqueIndexes (lines 258, 173), or on the transaction (line 93)
\* where the event of any request arrives; each calls preventDefault
OnError(S, req, err) == Reject(S, err)

\* an exception that escapes an event handler makes the engine abort the transaction
AfterHandler(S) ==
  IF S.thrown /\ S.txState = "active" THEN [S EXCEPT !.txState = "aborting"] ELSE S

\* the caller's continuation runs right after the piece of JavaScript that resolved
\* the promise; it may place one more request on the same transaction
CallerRequest == Req("caller", 0, 0, 0, "add", "", Undef, UndefinedValue, 0, 0)

\* the state of the promise (or the exception) an entry point hands to its caller
Handed(state, err, value) == [state |-> state, err |-> err, value |-> value]

NotCalled == Handed("none", NoError, UndefinedValue)

\* the result list of a store, as a value
ListValue(items) == [kind |-> "list", items |-> items]

\* line 43, the reaction batch chains on the promise of transactionalBatch:
\* (arr) => arr[0][storeName]; it throws when arr[0] is undefined
ThenFirstStore(S) ==
  IF 1 \notin DOMAIN S.results
  THEN Handed("rejected", Error("TypeError", ""), UndefinedValue)
  ELSE Handed("resolved", NoError,
              IF <<1, args.storeName>> \in DOMAIN S.storeResults
              THEN ListValue(S.storeResults[<<1, args.storeName>>])
              ELSE UndefinedValue)

\* what the caller holds once this piece of JavaScript and the promise reactions it
\* queued have run: transactionalBatch hands out its own promise, batch the promise
\* of line 43
Chain(S) ==
  IF S.delivered.state \in {"threw", "resolved", "rejected"} THEN S.delivered
  ELSE IF S.outcome.state = "pending" THEN Handed("pending", NoError, UndefinedValue)
  ELSE IF S.outcome.state = "rejected" THEN Handed("rejected", S.outcome.err, UndefinedValue)
  ELSE IF args.entry = "batch" THEN ThenFirstStore(S)
  ELSE Handed("resolved", NoError, UndefinedValue)

Commit(S) ==
  /\ iter' = S.iter
  /\ delivered' = Chain(S)
  /\ tr' = S.tr
  /\ opened' = S.opened
  /\ calls' = S.calls
  /\ storeIter' = S.storeIter
  /\ ctx' = S.ctx
  /\ storeResults' = S.storeResults
  /\ results' = S.results
  /\ checks' = S.checks
  /\ txState' = S.txState
  /\ outcome' = S.outcome
  /\ deferreds' = S.deferreds
  /\ trace' = S.trace
  /\ \E continue \in IF outcome.state = "pending" /\ S.outcome.state = "resolved"
                     THEN BOOLEAN ELSE {FALSE} :
       IF ~continue THEN queue' = S.queue /\ caller' = caller
       ELSE IF S.txState = "active" /\ S.inTx
            THEN queue' = Append(S.queue, CallerRequest) /\ caller' = "accepted"
            ELSE queue' = S.queue /\ caller' = "refused"

\* a transactionalBatch that asks the database for a transaction whatever tr is
OpenTransactionAlways(S) ==
  LET scope == GetStoreNames(PlanArg(args.planForm, plan)) \o opts.extraStores IN
  IF scope = << >> THEN Throw(S, Error("InvalidAccessError", ""))
  ELSE Log([S EXCEPT !.opened = Append(@, [scope |-> scope, mode |-> "readwrite"]),
                     !.tr = Transaction(Len(S.opened) + 1, scope, "readwrite")],
           Event("open", 0, 0, 0, "", Undef))

\* lines 88-90: a database handle is replaced by a readwrite transaction on the store
\* names of the plan and the extra stores; the engine refuses an empty list of names
\* (InvalidAccessError). A transaction is used as it is
OpenTransaction(S) ==
  IF S.tr.kind # "db" THEN S
  ELSE LET scope == GetStoreNames(PlanArg(args.planForm, plan)) \o opts.extraStores IN
       IF scope = << >> THEN Throw(S, Error("InvalidAccessError", ""))
       ELSE Log([S EXCEPT !.opened = Append(@, [scope |-> scope, mode |-> "readwrite"]),
                          !.tr = Transaction(Len(S.opened) + 1, scope, "readwrite")],
                Event("open", 0, 0, 0, "", Undef))

\* lines 91-221: the promise and its executor, on the transaction tr
Executor(S) ==
  LET S1 == IterateStoreOps(S)
  IN  IF S1.thrown THEN Reject([S1 EXCEPT !.thrown = FALSE], S1.thrownErr) ELSE S1

\* no transaction is opened: the call ended before line 89
Unopened(S, handed) == [S EXCEPT !.txState = "unopened", !.inTx = FALSE, !.delivered = handed]

\* lines 83-222, transactionalBatch(tr, storeOpsArr, opts) with a database handle:
\* line 84 checks arguments.length; line 86 calls storeOpsArr.keys(), which throws
\* when storeOpsArr is neither an array nor a plain object; line 89 opens the
\* transaction; then the promise's executor runs, and an exception that escapes the
\* executor rejects the promise
TransactionalBatch(S) ==
  IF args.argc \notin {2, 3}
  THEN Unopened(S, Handed("rejected", Error("invalid arguments length", ""), UndefinedValue))
  ELSE IF args.planForm = "other"
  THEN Unopened(S, Handed("threw", Error("TypeError", ""), UndefinedValue))
  ELSE LET S1 == OpenTransaction(S) IN
       IF S1.thrown
       THEN Unopened([S1 EXCEPT !.thrown = FALSE], Handed("threw", S1.thrownErr, UndefinedValue))
       ELSE Executor(S1)

\* a batch that checks arguments.length before storeName
BatchArgcFirst(S) ==
  IF args.argc \notin {3, 4}
  THEN Unopened(S, Handed("rejected", Error("invalid arguments length", ""), UndefinedValue))
  ELSE IF args.storeName = NotAString
  THEN Unopened(S, Handed("rejected", Error("invalid \"storeName\"", ""), UndefinedValue))
  ELSE LET canon == ValidateAndCanonicalizeOps(args.ops) IN
       IF ~canon.ok THEN Unopened(S, Handed("rejected", canon.err, UndefinedValue))
       ELSE LET S1 == OpenTransaction(S) IN
            IF S1.thrown
            THEN Unopened([S1 EXCEPT !.thrown = FALSE],
                          Handed("threw", S1.thrownErr, UndefinedValue))
            ELSE Executor(S1)

\* lines 35-44, batch(db, storeName, ops, opts): args.ops is the ops argument; the
\* canonicalization of line 39 changes an array argument in place, and `plan` is
\* the one-unit plan of line 43 as transactionalBatch receives it
Batch(S) ==
  IF args.storeName = NotAString
  THEN Unopened(S, Handed("rejected", Error("invalid \"storeName\"", ""), UndefinedValue))
  ELSE IF args.argc \notin {3, 4}
  THEN Unopened(S, Handed("rejected", Error("invalid arguments length", ""), UndefinedValue))
  ELSE LET canon == ValidateAndCanonicalizeOps(args.ops) IN
       IF ~canon.ok THEN Unopened(S, Handed("rejected", canon.err, UndefinedValue))
       ELSE LET S1 == OpenTransaction(S) IN
            IF S1.thrown
            THEN Unopened([S1 EXCEPT !.thrown = FALSE],
                          Handed("threw", S1.thrownErr, UndefinedValue))
            ELSE Executor(S1)

-----------------------------------------------------------------------------
(* Inputs *)

Nobody == Rec(Undef, Undef)

\* the object of the test 'validates unique indexes': key 2 repeats the title of key 1
DuplicateTitle ==
  ObjectOps(<< <<"1", Rec("x", "p")>>, <<"2", Rec("x", "j")>>, <<"3", Rec("y", "j")>> >>)

\* the list of the tests of move and copy
MoveCopy ==
  ArrayOps(<< Op("put", "1", Nobody), Op("move", "2", Prim("1")), Op("copy", "3", Prim("2")) >>)

\* the second add finds its key taken
AddTwice == ArrayOps(<< Op("add", "1", Rec("x", "p")), Op("add", "1", Rec("x", "p")) >>)

PutDel == ArrayOps(<< Op("put", "1", Rec("y", "p")), Op("del", "1", UndefinedValue) >>)

BadType == ArrayOps(<< Op("delete", "1", UndefinedValue) >>)

Units ==
  { Task("plain"), Task("deferred"), Task("deferredReq"), Task("abort"), Task("throw"),
    StoreOps(<< <<"books", DuplicateTitle>> >>),
    StoreOps(<< <<"books", MoveCopy>> >>),
    StoreOps(<< <<"books", AddTwice>> >>),
    StoreOps(<< <<"books", ArrayOps(<< >>)>> >>),
    StoreOps(<< <<"storage", ClearOps>>, <<"books", PutDel>> >>),
    StoreOps(<< <<"books", BadType>>, <<"storage", ClearOps>> >>) }

Plans == UNION {[1..n -> Units] : n \in 0..MaxUnits}

-----------------------------------------------------------------------------
(* Actions *)

Init ==
  /\ opts \in [parallel : BOOLEAN, resolveEarly : BOOLEAN,
               extraStores : {<<"storage">>}, adapterCb : {FALSE}]
  /\ engaged \in BOOLEAN
  /\ plan \in Plans
  /\ phase = "idle"
  /\ iter = 0
  /\ storeIter = << >>
  /\ ctx = << >>
  /\ storeResults = << >>
  /\ results = << >>
  /\ queue = << >>
  /\ checks = << >>
  /\ before \in Databases
  /\ store = before
  /\ txState = "active"
  /\ outcome = [state |-> "pending", err |-> NoError]
  /\ deferreds = << >>
  /\ caller = "none"
  /\ faults = 0
  /\ trace = << >>
  /\ args = PlanCall
  /\ delivered = NotCalled
  /\ tr = Database
  /\ opened = << >>
  /\ calls = << >>
  /\ listed = NotAsked

\* lines 83-222: the call of transactionalBatch with a database handle: it opens the
\* transaction and runs the promise's executor; an exception that escapes the
\* executor rejects the promise
Call ==
  /\ phase = "idle"
  /\ args.entry = "transactionalBatch"
  /\ phase' = "called"
  /\ Commit(TransactionalBatch(Cur(TRUE)))
  /\ UNCHANGED <<opts, engaged, plan, before, store, faults, args, listed>>

\* lines 35-44: the call of batch
BatchCall ==
  /\ phase = "idle"
  /\ args.entry = "batch"
  /\ phase' = "called"
  /\ Commit(Batch(Cur(TRUE)))
  /\ UNCHANGED <<opts, engaged, plan, before, store, faults, args, listed>>

\* the engine executes the oldest request and fires its success or error event
Deliver ==
  /\ phase = "called"
  /\ txState = "active"
  /\ queue # << >>
  /\ LET req == Head(queue)
         contents == IF req.storeName \in StoreNames THEN store[req.storeName] ELSE EmptyMap
         native == NativeConstraint(req, contents)
     IN  \E fault \in IF faults < MaxFaults THEN BOOLEAN ELSE {FALSE},
            lax \in IF native /\ engaged /\ ~(req.type = "add" /\ EngineKey(req) \in DOMAIN contents)
                    THEN BOOLEAN ELSE {FALSE} :
           LET failed == fault \/ (native /\ ~lax)
               S == Log([Cur(TRUE) EXCEPT !.queue = Tail(queue)],
                        Event(IF fault THEN "error" ELSE IF failed THEN "constraint"
                              ELSE "done", req.ct, req.si, req.opIndex, req.type, req.key))
           IN
           IF failed
           THEN /\ Commit(AfterHandler(OnError(S,
                     req, Error(IF fault THEN "UnknownError" ELSE "ConstraintError", ""))))
                /\ store' = store
                /\ faults' = IF fault THEN faults + 1 ELSE faults
           ELSE /\ Commit(AfterHandler(OnSuccess(S, req, contents)))
                /\ store' = IF req.storeName \in StoreNames
                            THEN [store EXCEPT ![req.storeName] = EngineContents(req, contents)]
                            ELSE store
                /\ faults' = faults
  /\ UNCHANGED <<opts, engaged, plan, phase, before, args, listed>>

\* a promise returned by a Task Unit settles on its own, outside the transaction;
\* line 109: in serial mode iterateStoreOps is its fulfilment reaction, and an
\* exception in a reaction goes nowhere. In parallel mode nothing is chained on the
\* promise (line 107), so its settlement is no step of the call
TaskSettle ==
  \E ct \in DOMAIN deferreds, fulfilled \in BOOLEAN :
    /\ ~opts.parallel
    /\ plan[ct].does = "deferred"
    /\ deferreds[ct] = "pending"
    /\ LET S == Log([Cur(FALSE) EXCEPT
                       !.deferreds[ct] = IF fulfilled THEN "fulfilled" ELSE "rejected"],
                    Event("settle", ct, 0, 0, "", Undef))
           S1 == IF fulfilled THEN IterateStoreOps(S) ELSE S
       IN  Commit([S1 EXCEPT !.thrown = FALSE])
    /\ UNCHANGED <<opts, engaged, plan, phase, before, store, faults, args, listed>>

\* line 95: the transaction has no request left and completes
TxComplete ==
  /\ phase = "called"
  /\ txState = "active"
  /\ queue = << >>
  /\ LET S == Log([Cur(FALSE) EXCEPT !.txState = "complete"],
                  Event("complete", 0, 0, 0, "", Undef))
     IN  Commit(IF opts.resolveEarly THEN S ELSE Resolve(S))
  /\ UNCHANGED <<opts, engaged, plan, phase, before, store, faults, args, listed>>

\* lines 93-94: the transaction aborts: its pending requests fail, their error events
\* reach the handlers, then the abort event does; its writes are reverted
TxAbort ==
  /\ phase = "called"
  /\ txState = "aborting"
  /\ LET S == Log([Cur(FALSE) EXCEPT !.txState = "aborted", !.queue = << >>],
                  Event("abort", 0, 0, 0, "", Undef))
     IN  Commit(Reject(S, Error(IF queue # << >> THEN "AbortError" ELSE "null", "")))
  /\ store' = before
  /\ UNCHANGED <<opts, engaged, plan, phase, before, faults, args, listed>>

Next == Call \/ Deliver \/ TaskSettle \/ TxComplete \/ TxAbort

Spec == Init /\ [][Next]_vars

-----------------------------------------------------------------------------
(* The entry points on one operation list: batch(db, "books", list, opts) and  *)
(* transactionalBatch(db, [{books: list}], opts), with well-formed and         *)
(* malformed arguments                                                         *)

\* the elements generated array lists are made of: a descriptor, a descriptor of
\* unknown type, shorthand elements of no, one and two descriptors, a shorthand
\* element of unknown type, and an element that is not an object
GenElements ==
  { Op("put", "1", Nobody),
    Op("bogus", "2", Nobody),
    Short("add", << >>),
    Short("add", << <<"2", Nobody>> >>),
    Short("put", << <<"2", Nobody>>, <<"3", Nobody>> >>),
    Short("bogus", << <<"3", Nobody>> >>),
    NonObj }

ArrayLists == {ArrayOps(items) : items \in UNION {[1..n -> GenElements] : n \in 0..MaxLen}}

\* the values generated objects are made of: the tombstone '\0', strings that begin
\* with it, a plain string, and null
MapValues ==
  { Str(<<"NUL">>), Str(<<"NUL", "NUL">>), Str(<<"NUL", "a">>), Str(<<"a">>), NullValue }

KeyNames == <<"1", "2", "3", "4">>

ObjectLists ==
  {ObjectOps([i \in 1..Len(vals) |-> <<KeyNames[i], vals[i]>>]) :
     vals \in UNION {[1..n -> MapValues] : n \in 0..MaxLen}}

\* the lists that exercise the canonicalizer alone: run on an empty database with
\* the validator off
GeneratedLists == ArrayLists \cup ObjectLists \cup {ClearOps, OtherOps}

\* one put of a book titled x under key 1
PutX == ArrayOps(<< Op("put", "1", Rec("x", "p")) >>)

\* the same put issued twice
PutTwice == ArrayOps(<< Op("put", "1", Rec("x", "p")), Op("put", "1", Rec("x", "p")) >>)

\* object notation with null for two of three keys
NullDeletes ==
  ObjectOps(<< <<"1", NullValue>>, <<"2", NullValue>>, <<"3", Rec("z", "j")>> >>)

\* a database whose books store holds one book titled x under the given primary key
OneBook(key) == [InitialStore EXCEPT !["books"] = Bind(EmptyMap, key, Rec("x", "q"))]

\* a database holding books under the keys 1, 2 and 3
ThreeBooks ==
  [InitialStore EXCEPT !["books"] =
     Bind(Bind(Bind(EmptyMap, "1", Rec("x", "p")), "2", Rec("y", "p")), "3", Rec("z", "p"))]

\* a database whose books store holds, under key 4, a book without a title (the
\* unique index does not list it)
UntitledBook == [InitialStore EXCEPT !["books"] = Bind(EmptyMap, "4", Rec(Undef, "q"))]

\* a copy whose source an earlier operation of the list has rewritten
PutThenCopy ==
  ArrayOps(<< Op("put", "4", Rec(Undef, "r")), Op("copy", "2", Prim("4")) >>)

\* a copy whose source is the destination of an earlier move
MoveThenCopy == ArrayOps(<< Op("move", "2", Prim("4")), Op("copy", "3", Prim("2")) >>)

\* a move of one book
MoveOne == ArrayOps(<< Op("move", "2", Prim("4")) >>)

\* <<list, database>>: the lists run against chosen databases, validator on and off;
\* "0" is the number 0 and "" the empty string, both valid primary keys
Scenarios ==
  {<<PutX, db>> : db \in {InitialStore, OneBook("4"), OneBook("0"), OneBook("")}}
    \cup {<<PutTwice, InitialStore>>, <<MoveCopy, InitialStore>>,
          <<DuplicateTitle, InitialStore>>, <<NullDeletes, ThreeBooks>>,
          <<PutThenCopy, UntitledBook>>, <<MoveThenCopy, UntitledBook>>,
          <<MoveOne, UntitledBook>>, <<MoveOne, OneBook("4")>>}

\* the shapes of a call: the entry point, arguments.length, and for
\* transactionalBatch the form of its second argument, for batch its storeName; an
\* argument that is not passed is undefined
CallShapes(list) ==
  {TbCall(argc, form) : argc \in 1..4, form \in {"array", "object", "other"}}
    \cup {BatchOf(argc, IF argc < 2 THEN NotAString ELSE name,
                  IF argc < 3 THEN OtherOps ELSE list) :
            argc \in 1..5, name \in {"books", NotAString}}

\* the opts argument is there: the default of line 83 applies when it is left out
HasOpts(a) == a.argc >= (IF a.entry = "batch" THEN 4 ELSE 3)

\* storeOpsArr as transactionalBatch receives it: from its caller, or from line 43 of
\* batch, where an array has been changed in place by the canonicalization of line 39
PlanFor(a, list) ==
  IF a.entry = "batch"
  THEN LET canon == ValidateAndCanonicalizeOps(a.ops) IN
       IF a.storeName = NotAString \/ ~canon.ok THEN << >>
       ELSE << StoreOps(<< <<a.storeName,
                             IF a.ops.form = "array" THEN ArrayOps(canon.ops) ELSE a.ops>> >>) >>
  ELSE IF a.planForm = "other" THEN << >>
  ELSE << StoreOps(<< <<"books", list>> >>) >>

EntryInit ==
  /\ \E list \in GeneratedLists \cup {sc[1] : sc \in Scenarios} :
       /\ \/ list \in GeneratedLists /\ engaged = FALSE /\ before = InitialStore
          \/ engaged \in BOOLEAN /\ before \in {sc[2] : sc \in {x \in Scenarios : x[1] = list}}
       /\ args \in CallShapes(list)
       /\ plan = PlanFor(args, list)
  /\ opts \in IF HasOpts(args)
              THEN [parallel : BOOLEAN, resolveEarly : BOOLEAN,
                    extraStores : {<< >>}, adapterCb : {FALSE}]
              ELSE {DefaultOpts}
  /\ phase = "idle"
  /\ iter = 0
  /\ storeIter = << >>
  /\ ctx = << >>
  /\ storeResults = << >>
  /\ results = << >>
  /\ queue = << >>
  /\ checks = << >>
  /\ store = before
  /\ txState = "active"
  /\ outcome = [state |-> "pending", err |-> NoError]
  /\ deferreds = << >>
  /\ caller = "none"
  /\ faults = 0
  /\ trace = << >>
  /\ delivered = NotCalled
  /\ tr = Database
  /\ opened = << >>
  /\ calls = << >>
  /\ listed = NotAsked

EntryNext == Call \/ BatchCall \/ Deliver \/ TxComplete \/ TxAbort

EntrySpec == EntryInit /\ [][EntryNext]_vars

-----------------------------------------------------------------------------
(* The handle, the extra stores and the adapter: transactionalBatch on a       *)
(* database or on a transaction of the caller, and getStoreNames on the plan   *)

\* lines 46-52: a call of the exported getStoreNames on the plan
GetStoreNamesCall ==
  /\ phase = "idle"
  /\ ~listed.called
  /\ listed' = [called |-> TRUE, value |-> GetStoreNames(PlanArg(args.planForm, plan))]
  /\ UNCHANGED <<opts, engaged, plan, phase, iter, storeIter, ctx, storeResults, results,
                 queue, checks, before, store, txState, outcome, deferreds, caller, faults,
                 trace, args, delivered, tr, opened, calls>>

HandleUnits ==
  { Task("plain"), Task("deferred"),
    StoreOps(<< <<"books", PutX>> >>),
    StoreOps(<< <<"storage", ClearOps>> >>),
    StoreOps(<< <<"storage", ClearOps>>, <<"books", PutX>> >>) }

HandlePlans == UNION {[1..n -> HandleUnits] : n \in 0..MaxUnits}

\* a transaction of the caller's, on both stores
Supplied == Transaction(0, <<"books", "storage">>, "readwrite")

HandleInit ==
  /\ plan \in HandlePlans
  /\ args \in {[TbCall(3, form) EXCEPT !.handle = h] :
                 form \in {"array", "object"}, h \in {"db", "tx"}}
  /\ args.planForm = "object" => Len(plan) = 1 /\ plan[1].kind = "ops"
  /\ tr = IF args.handle = "db" THEN Database ELSE Supplied
  /\ opts \in [parallel : BOOLEAN, resolveEarly : {FALSE},
               extraStores : {<< >>, <<"storage">>}, adapterCb : BOOLEAN]
  /\ engaged = FALSE
  /\ before = InitialStore
  /\ phase = "idle"
  /\ iter = 0
  /\ storeIter = << >>
  /\ ctx = << >>
  /\ storeResults = << >>
  /\ results = << >>
  /\ queue = << >>
  /\ checks = << >>
  /\ store = before
  /\ txState = "active"
  /\ outcome = [state |-> "pending", err |-> NoError]
  /\ deferreds = << >>
  /\ caller = "none"
  /\ faults = 0
  /\ trace = << >>
  /\ delivered = NotCalled
  /\ opened = << >>
  /\ calls = << >>
  /\ listed = NotAsked

HandleNext == GetStoreNamesCall \/ Call \/ Deliver \/ TaskSettle \/ TxComplete

HandleSpec == HandleInit /\ [][HandleNext]_vars

-----------------------------------------------------------------------------
(* Properties *)

Serial == ~opts.parallel

\* the positions of the queue holding requests of the given kinds
Pending(kinds) == {i \in DOMAIN queue : queue[i].kind \in kinds}

\* the positions of the history holding events of the given names
Events(names) == {p \in DOMAIN trace : trace[p].ev \in names}

\* C1: in serial mode at most one write request of the batch is outstanding at any
\* time, and a request of the operation at position i of a store's list (its write,
\* or the read or lookup before it) is outstanding only when the requests of the
\* i - 1 positions before it, in the list as expanded so far, have all succeeded
C1_SerialOneRequestAtATime ==
  Serial =>
    /\ Cardinality(Pending({"write"})) <= 1
    /\ \A i \in Pending({"write", "get", "getKey"}) :
         ctx[<<queue[i].ct, queue[i].si>>].successCt = queue[i].opIndex - 1

\* C1 witness: serial mode, the delete a move injected is outstanding at position 3
C1_Witness ==
  /\ Serial
  /\ \E i \in Pending({"write"}) :
       /\ queue[i].type = "delete"
       /\ queue[i].opIndex = 3
       /\ Len(ctx[<<queue[i].ct, queue[i].si>>].ops) = 4

\* every request of store si of unit ct has succeeded
StoreDone(ct, si) ==
  /\ <<ct, si>> \in DOMAIN ctx
  /\ ctx[<<ct, si>>].successCt = Len(ctx[<<ct, si>>].ops)
  /\ \A i \in Pending({"write", "get", "getKey"}) : ~(queue[i].ct = ct /\ queue[i].si = si)

\* unit ct has finished: its stores are done, or the deferred value it returned has settled
UnitFinished(ct) ==
  IF plan[ct].kind = "task"
  THEN ct \in DOMAIN results /\ (ct \in DOMAIN deferreds => deferreds[ct] # "pending")
  ELSE \A si \in 1..Len(plan[ct].stores) : StoreDone(ct, si)

\* C2: in serial mode, when a plan unit has been taken from the plan every unit before
\* it has finished (all requests of all its stores have succeeded, the deferred value
\* of a task has settled), and within a unit a store is begun only when the stores
\* before it are done
C2_SerialUnitAfterUnit ==
  Serial =>
    /\ \A ct \in 1..(iter - 1) : UnitFinished(ct)
    /\ \A ct \in DOMAIN storeIter : \A si \in 1..(storeIter[ct] - 1) : StoreDone(ct, si)

\* C2 witness: serial mode, the second unit, of two stores, follows a task whose
\* deferred value was awaited, and its second store has been begun
C2_Witness ==
  /\ Serial
  /\ iter = 2
  /\ plan[1].does = "deferredReq"
  /\ Len(plan[2].stores) = 2
  /\ storeIter[2] = 2

\* the call has returned and nothing else has happened since
JustCalled ==
  /\ phase = "called"
  /\ Events({"done", "error", "constraint", "settle", "complete", "abort"}) = {}

\* the callback of task ct has been invoked
Invoked(ct) == \E p \in Events({"invoke"}) : trace[p].ct = ct

\* a request has been placed for position i of the list of store si of unit ct
Begun(ct, si, i) ==
  \E p \in Events({"dispatch"}) : trace[p].ct = ct /\ trace[p].si = si /\ trace[p].opIndex = i

\* the operation lists the plan units submit, and what each canonicalizes to
RawLists == UNION {{u.stores[i][2] : i \in 1..Len(u.stores)} : u \in Units}

CanonicalOf == [rawOps \in RawLists |-> ValidateAndCanonicalizeOps(rawOps)]

\* the canonical list of store si of unit ct, as submitted
Canonical(ct, si) ==
  LET rawOps == plan[ct].stores[si][2]
  IN  IF rawOps \in RawLists THEN CanonicalOf[rawOps] ELSE ValidateAndCanonicalizeOps(rawOps)

AllValid ==
  \A ct \in 1..Len(plan) : \A si \in 1..Len(plan[ct].stores) : Canonical(ct, si).ok

\* every unit has been initiated: every task invoked, a request placed for every
\* operation of every store whose list is valid
AllInitiated ==
  /\ iter = Len(plan)
  /\ \A ct \in 1..Len(plan) :
       IF plan[ct].kind = "task" THEN Invoked(ct)
       ELSE \A si \in 1..Len(plan[ct].stores) :
              Canonical(ct, si).ok =>
                \A i \in 1..Len(Canonical(ct, si).ops) : Begun(ct, si, i)

C4_ResolvesOnlyOnComplete ==
  ~opts.resolveEarly /\ outcome.state = "resolved" =>
    /\ txState = "complete"
    /\ \E p \in Events({"complete"}) : \A q \in Events({"resolve"}) : p < q

\* C4 witness: resolveEarly unset, both units of the plan have finished all their
\* requests, the transaction has not completed yet and the call is still pending
C4_Witness ==
  /\ ~opts.resolveEarly
  /\ Len(plan) = 2
  /\ iter = 2
  /\ \A ct \in 1..2 : plan[ct].kind = "ops" /\ UnitFinished(ct) /\ ct \in DOMAIN results
  /\ queue = << >>
  /\ txState = "active"
  /\ outcome.state = "pending"

\* the Result Tree has a slot for every plan unit: a task's slot holds what the
\* callback returned, a Store-Ops Unit's slot maps every store of the unit to a list
ResultTreeComplete ==
  \A ct \in 1..Len(plan) :
    /\ ct \in DOMAIN results
    /\ IF plan[ct].kind = "task"
       THEN /\ results[ct].kind = "task"
            /\ results[ct].ret = IF plan[ct].does \in {"deferred", "deferredReq"}
                                 THEN "deferred" ELSE Undef
       ELSE /\ results[ct].kind = "ops"
            /\ \A si \in 1..Len(plan[ct].stores) :
                 <<ct, StoreNameOf(ct, si)>> \in DOMAIN storeResults

\* C5 as stated: whenever the call is resolved with resolveEarly unset, the Result
\* Tree is complete
C5_Original == ~opts.resolveEarly /\ outcome.state = "resolved" => ResultTreeComplete

\* the signals of the transaction: its abort, and the error of a request of the batch
\* or of one of its tasks (the caller's own later request is left out)
Signals ==
  {p \in Events({"error", "constraint", "abort"}) : trace[p].ev = "abort" \/ trace[p].ct > 0}

Signalled == Signals # {}

\* C6 as stated: if the transaction signals an error or is aborted, the outcome of the
\* call is a rejection, whatever the options
C6_Original == Signalled => outcome.state = "rejected"

\* C6 amended: if the transaction signals an error or is aborted, the outcome of the
\* call is a rejection, in serial and in parallel mode and wherever the aborting task
\* stands in the plan, unless resolveEarly is set and the call had resolved before the
\* signal; with resolveEarly unset the outcome is always a rejection
C6_SignalRejects ==
  Signalled =>
    \/ outcome.state = "rejected"
    \/ /\ opts.resolveEarly
       /\ \E q \in Events({"resolve"}) : \A p \in Signals : q < p

\* C6 witness: resolveEarly unset, the task in second place aborted the transaction
\* after the first unit's writes, the abort was signalled and the call is rejected
C6_Witness ==
  /\ ~opts.resolveEarly
  /\ Len(plan) = 2
  /\ plan[1].kind = "ops"
  /\ plan[2].does = "abort"
  /\ Events({"success"}) # {}
  /\ txState = "aborted"
  /\ outcome.state = "rejected"

\* the request types that write to a store
WriteTypes == {"add", "put", "delete", "clear"}

\* the write requests the orchestrator dispatched (the caller's own request has ct = 0)
WriteDispatches ==
  {p \in Events({"dispatch"}) : trace[p].ct > 0 /\ trace[p].type \in WriteTypes}

\* at position r of the history every task had been invoked and a request had been
\* placed for every operation of every submitted list (the write itself, or the read
\* or the lookups that come before the write)
InitiatedBefore(r) ==
  \A ct \in 1..Len(plan) :
    IF plan[ct].kind = "task"
    THEN \E p \in Events({"invoke"}) : p < r /\ trace[p].ct = ct
    ELSE \A si \in 1..Len(plan[ct].stores) :
           /\ Canonical(ct, si).ok
           /\ \A i \in 1..Len(Canonical(ct, si).ops) :
                \E p \in Events({"dispatch"}) :
                  p < r /\ trace[p].ct = ct /\ trace[p].si = si /\ trace[p].opIndex = i

\* C7 as stated: with resolveEarly, when the call resolves every task has been invoked
\* and every write request of every Store-Ops Unit has been dispatched (none is
\* dispatched later), in serial and in parallel mode
C7_Original ==
  opts.resolveEarly =>
    \A r \in Events({"resolve"}) :
      /\ InitiatedBefore(r)
      /\ \A p \in WriteDispatches : p < r

\* C7 amended: with resolveEarly, when the call resolves every task has been invoked
\* and a request has been placed for every submitted operation; in serial mode every
\* write request has been dispatched by then, in parallel mode the put and delete of
\* a move or copy and the writes that wait for unique-index lookups may be dispatched
\* after the resolution
C7_EarlyResolveInitiated ==
  opts.resolveEarly =>
    \A r \in Events({"resolve"}) :
      /\ InitiatedBefore(r)
      /\ Serial => \A p \in WriteDispatches : p < r

\* C7 witness: resolveEarly in parallel mode, the call resolved while the read of a
\* move was outstanding, and the put and the delete it expands to were dispatched later
C7_Witness ==
  /\ opts.resolveEarly
  /\ opts.parallel
  /\ outcome.state = "resolved"
  /\ \E r \in Events({"resolve"}) :
       \E p, q \in WriteDispatches :
         /\ r < p /\ r < q
         /\ trace[p].type = "put" /\ trace[q].type = "delete"
         /\ trace[p].ct = trace[q].ct /\ trace[q].opIndex = trace[p].opIndex + 1

\* the Result Tree holds the result of every operation of every unit: a slot for every
\* unit, and for every store of a Store-Ops Unit one result for each operation of the
\* list as expanded
AllResultsHeld ==
  /\ ResultTreeComplete
  /\ \A ct \in 1..Len(plan) : \A si \in 1..Len(plan[ct].stores) :
       /\ <<ct, si>> \in DOMAIN ctx
       /\ Len(storeResults[<<ct, StoreNameOf(ct, si)>>]) = Len(ctx[<<ct, si>>].ops)

\* nothing has failed: no request of the batch failed, the transaction was not aborted
NoFailure == Signals = {} /\ txState \notin {"aborting", "aborted"}

\* what C8 promises of a resolved call: it resolved before the completion event, the
\* Result Tree is fully populated, and the caller's request, if issued, was accepted
ResolvedEarlyAndOpen ==
  /\ \A r \in Events({"resolve"}) : \A c \in Events({"complete"}) : r < c
  /\ AllResultsHeld
  /\ caller # "refused"

\* C8 as stated: with resolveEarly in serial mode and no failure, the call resolves
\* before the completion event with every result in the Result Tree, and the request
\* the caller issues right after the resolution is accepted by the same transaction
C8_Original ==
  Serial /\ opts.resolveEarly /\ outcome.state = "resolved" /\ NoFailure =>
    ResolvedEarlyAndOpen

\* no task of the plan returns a deferred value that settles outside the callbacks of
\* the transaction's requests (on a timer, say)
SettlesInTransaction == \A ct \in 1..Len(plan) : plan[ct].does # "deferred"

\* C8 amended: with resolveEarly in serial mode and no failure, provided every deferred
\* value a task returns settles while the transaction is active, the call resolves
\* before the completion event with every result in the Result Tree, and the request
\* the caller issues right after the resolution is accepted by the same transaction
C8_SerialResolvesEarly ==
  Serial /\ opts.resolveEarly /\ outcome.state = "resolved" /\ NoFailure
    /\ SettlesInTransaction =>
      ResolvedEarlyAndOpen

\* C8 witness: serial mode with resolveEarly, a move and a copy among the operations,
\* the call resolved, the caller's request was accepted and served, and the
\* transaction completed afterwards
C8_Witness ==
  /\ Serial
  /\ opts.resolveEarly
  /\ outcome.state = "resolved"
  /\ plan = <<StoreOps(<< <<"books", MoveCopy>> >>)>>
  /\ caller = "accepted"
  /\ \E p \in Events({"done"}) : trace[p].ct = 0
  /\ txState = "complete"

ConstraintMsg == "Unique index ConstraintError"

\* the write of the operation whose lookups ended at position c of the history with a
\* conflict was issued afterwards
WrittenAfter(c) ==
  \E p \in WriteDispatches :
    /\ c < p
    /\ trace[p].ct = trace[c].ct /\ trace[p].si = trace[c].si
    /\ trace[p].opIndex = trace[c].opIndex /\ trace[p].key = trace[c].key
    /\ trace[p].type \in {"add", "put"}

RejectedWithConstraint == outcome.state = "rejected" /\ outcome.err.msg = ConstraintMsg

\* C9 as stated: when the engaged validator finds, for an add or put, a kept unique
\* index whose key is mapped to another primary key, the write is never issued and
\* the batch rejects with 'Unique index ConstraintError'
C9_Original ==
  \A c \in Events({"conflict"}) : ~WrittenAfter(c) /\ RejectedWithConstraint

\* C9 amended: when the engaged validator finds such a conflict the write is never
\* issued, and the batch rejects with 'Unique index ConstraintError' unless the call
\* was settled before the conflict was found (resolved early in parallel mode, or
\* rejected with an earlier error), in which case that outcome stands
C9_ConflictStopsWrite ==
  \A c \in Events({"conflict"}) :
    /\ ~WrittenAfter(c)
    /\ \/ RejectedWithConstraint
       \/ \E q \in Events({"resolve", "reject"}) : q < c

\* C9 witness: the validator is engaged, the lookup of a put found the title under
\* another key, the call is rejected with the constraint message and the transaction
\* has completed without that write
C9_Witness ==
  /\ engaged
  /\ \E c \in Events({"conflict"}) : trace[c].type = "put" /\ trace[c].key = "2"
  /\ RejectedWithConstraint
  /\ txState = "complete"
  /\ "2" \notin DOMAIN store["books"]

\* the constraint violations of the batch's operations: a conflict the validator found,
\* or a write the engine refused with a ConstraintError
ConstraintFailures == {f \in Events({"conflict", "constraint"}) : trace[f].ct > 0}

\* the write that succeeded at position p of the history has not been undone by the
\* transaction: its key is in the store unless a later write deleted it
StillApplied(p) ==
  \/ trace[p].type \notin {"add", "put"}
  \/ trace[p].key \in DOMAIN store[StoreNameOf(trace[p].ct, trace[p].si)]
  \/ \E q \in Events({"success"}) :
       /\ p < q
       /\ StoreNameOf(trace[q].ct, trace[q].si) = StoreNameOf(trace[p].ct, trace[p].si)
       /\ \/ trace[q].type = "clear"
          \/ trace[q].type = "delete" /\ trace[q].key = trace[p].key

\* C10: in serial mode, when an operation of a store's list fails with a constraint
\* violation the batch rejects with the constraint error, the transaction is not
\* aborted, the writes that succeeded before it remain applied, and no request of the
\* batch is issued after the failure; so the three-operation list whose second
\* operation repeats the title of the first leaves, in an empty store, exactly the
\* record of key 1
C10_SerialConstraintStops ==
  Serial =>
    \A f \in ConstraintFailures :
      /\ outcome.state = "rejected"
      /\ outcome.err.msg \in {ConstraintMsg, "ConstraintError"}
      /\ txState \in {"active", "complete"}
      /\ Events({"abort"}) = {}
      /\ \A p \in Events({"success"}) : p < f /\ StillApplied(p)
      /\ \A p \in Events({"dispatch"}) : trace[p].ct > 0 => p < f
      /\ queue = << >>
      /\ plan = <<StoreOps(<< <<"books", DuplicateTitle>> >>)>> /\ before = InitialStore
           => /\ trace[f].opIndex = 2
              /\ DOMAIN store["books"] = {"1"}

\* C10 witness: serial mode, empty store, the three-operation list whose second title
\* repeats the first; the validator found the conflict at the second operation and the
\* transaction has completed with one record
C10_Witness ==
  /\ Serial
  /\ engaged
  /\ before = InitialStore
  /\ plan = <<StoreOps(<< <<"books", DuplicateTitle>> >>)>>
  /\ \E f \in ConstraintFailures : trace[f].ev = "conflict" /\ trace[f].opIndex = 2
  /\ outcome.state = "rejected"
  /\ txState = "complete"
  /\ DOMAIN store["books"] = {"1"}


-----------------------------------------------------------------------------
(* C11: the verdict of the engaged validator                                 *)

\* the verdicts countUniqueIndexes has handed to its callback, as positions of the trace
Verdicts == Events({"conflict", "unique"})

\* the check a verdict belongs to
CheckOf(p) ==
  CHOOSE n \in DOMAIN checks :
    /\ checks[n].ct = trace[p].ct /\ checks[n].si = trace[p].si
    /\ checks[n].opIndex = trace[p].opIndex /\ checks[n].key = trace[p].key

\* no write had been executed when the verdict at p fell: the store was as at the start
NothingWrittenBefore(p) ==
  \A q \in 1..(p - 1) : ~(trace[q].ev = "done" /\ trace[q].type \in WriteTypes)

\* some kept unique index lists the index key derived from the value of check c under
\* a primary key other than the key being written
MapsToOtherKey(c, contents) ==
  LET kept == KeptIndexes(c.storeName, c.val) IN
  \E n \in 1..Len(kept) :
    LET index == Schema(c.storeName).indexes[kept[n]] IN
    \E k \in DOMAIN contents :
      k # c.key /\ RecordIndexKey(index, contents[k]) = RecordIndexKey(index, c.val)

\* C11 as stated: the validator reports a violation for a write exactly when a kept
\* unique index already maps the derived index key to a record of another primary
\* key, whatever that primary key is (0 and the empty string included)
C11_Original ==
  \A p \in Verdicts :
    NothingWrittenBefore(p) =>
      (trace[p].ev = "conflict" <=> MapsToOtherKey(checks[CheckOf(p)], before[checks[CheckOf(p)].storeName]))



-----------------------------------------------------------------------------
(* C12: an identical put issued twice                                        *)

\* the call was given this operation list for its one store
Submitted(list) ==
  /\ Len(plan) = 1 /\ plan[1].kind = "ops" /\ Len(plan[1].stores) = 1
  /\ plan[1].stores[1] = <<"books", list>>

\* the engine has executed the request of the operation at opIndex of the list
Executed(type, opIndex) ==
  \E p \in Events({"done"}) :
    trace[p].ct = 1 /\ trace[p].type = type /\ trace[p].opIndex = opIndex

\* C12: with the validator engaged, the same put (same key, same value) issued twice
\* in one list against the store with the unique index meets no constraint
\* violation, from the validator or from the engine, and once either put is
\* executed the store holds exactly the record the first one wrote
C12_IdenticalPutTwice ==
  Submitted(PutTwice) /\ engaged =>
    /\ Events({"conflict", "constraint"}) = {}
    /\ outcome.err.msg \notin {ConstraintMsg, "ConstraintError"}
    /\ \A i \in 1..2 :
         Executed("put", i) /\ txState \in {"active", "complete"} =>
           store["books"] = Bind(before["books"], "1", Rec("x", "p"))

\* both puts are executed in serial mode under the engaged validator, each after its
\* lookup, and the call resolves
C12_Witness ==
  /\ Submitted(PutTwice) /\ engaged /\ ~opts.parallel
  /\ Executed("put", 1) /\ Executed("put", 2)
  /\ Cardinality(Events({"unique"})) = 2
  /\ txState = "complete" /\ outcome.state = "resolved"



-----------------------------------------------------------------------------
(* C13: how validation errors reach the caller                               *)

\* C13 as stated: neither entry point raises an exception synchronously; whatever is
\* wrong with the arguments, the caller is handed a promise
C13_Original == delivered.state # "threw"



-----------------------------------------------------------------------------
(* C14: the messages of batch                                                *)

\* the caller of batch holds a promise rejected with this message (and this X)
BatchRejects(msg, arg) ==
  delivered = Handed("rejected", Error(msg, arg), UndefinedValue)

BatchCalled == args.entry = "batch" /\ phase = "called"

\* the elements of the list batch was given
GivenItems == IF args.ops.form = "array" THEN args.ops.items ELSE << >>

\* C14 as stated: each defect of a call of batch has its message, whenever the defect
\* is there
C14_Original ==
  BatchCalled =>
    /\ args.argc \notin {3, 4} => BatchRejects("invalid arguments length", "")
    /\ args.storeName = NotAString => BatchRejects("invalid \"storeName\"", "")
    /\ args.argc >= 3 /\ args.ops.form = "other" => BatchRejects("invalid \"ops\"", "")
    /\ \A i \in DOMAIN GivenItems :
         /\ GivenItems[i].kind = "nonobj" => BatchRejects("invalid op", "")
         /\ GivenItems[i].kind = "op" /\ GivenItems[i].type \notin OpTypes =>
              BatchRejects("invalid type", GivenItems[i].type)

\* an element validation objects to: not an object, or a descriptor or a non-empty
\* shorthand element of unknown type
Defective(e) ==
  \/ e.kind = "nonobj"
  \/ e.kind = "op" /\ e.type \notin OpTypes
  \/ e.kind = "short" /\ e.type \notin OpTypes /\ e.opers # << >>

DefectMsg(e) == IF e.kind = "nonobj" THEN Error("invalid op", "") ELSE Error("invalid type", e.type)

\* a descriptor of a known type
PlainValid(e) == e.kind = "op" /\ e.type \in OpTypes

\* C14: batch rejects with the message of the first defect in the order of its
\* checks: storeName not a string, then an argument count other than 3 or 4, then ops
\* that is neither a sequence, a mapping nor 'clear', then the first defective
\* element of a sequence whose earlier elements are descriptors of known types
C14_BatchMessages ==
  BatchCalled =>
    IF args.storeName = NotAString THEN BatchRejects("invalid \"storeName\"", "")
    ELSE IF args.argc \notin {3, 4} THEN BatchRejects("invalid arguments length", "")
    ELSE IF args.ops.form = "other" THEN BatchRejects("invalid \"ops\"", "")
    ELSE \A i \in DOMAIN GivenItems :
           Defective(GivenItems[i]) /\ (\A j \in 1..(i - 1) : PlainValid(GivenItems[j])) =>
             delivered = Handed("rejected", DefectMsg(GivenItems[i]), UndefinedValue)

\* batch was called with three arguments and a sequence whose second element is not
\* an object, after a valid descriptor, and has rejected with 'invalid op'
C14_Witness ==
  /\ BatchCalled /\ args.argc = 3 /\ args.storeName = "books"
  /\ Len(GivenItems) = 2 /\ PlainValid(GivenItems[1]) /\ GivenItems[2].kind = "nonobj"
  /\ BatchRejects("invalid op", "")



-----------------------------------------------------------------------------
(* C15: operations of unknown type                                           *)

\* the call has the right number of arguments, a string storeName, and a plan that
\* is a sequence or a mapping
WellFormedCall ==
  IF args.entry = "batch" THEN args.argc \in {3, 4} /\ args.storeName # NotAString
  ELSE args.argc \in {2, 3} /\ args.planForm # "other"

\* the operation list the call was given for its store
GivenList ==
  IF args.entry = "batch" THEN args.ops
  ELSE IF Len(plan) >= 1 /\ plan[1].kind = "ops" THEN plan[1].stores[1][2]
  ELSE OtherOps

\* the list is a sequence of descriptor objects and shorthand elements, one of which
\* holds an operation of unknown type
HasUnknownType(list) ==
  /\ list.form = "array"
  /\ \A i \in DOMAIN list.items : list.items[i].kind # "nonobj"
  /\ \E i \in DOMAIN list.items :
       list.items[i].type \notin OpTypes /\
         (list.items[i].kind = "op" \/ list.items[i].opers # << >>)

\* the call has settled, or thrown
Settled == delivered.state \in {"resolved", "rejected", "threw"}

\* C15 as stated: a list that contains an operation of unknown type X, at any
\* position, makes the call reject with 'invalid type "X"'
C15_Original ==
  phase = "called" /\ WellFormedCall /\ HasUnknownType(GivenList) /\ Settled =>
    delivered = Handed("rejected", Error("invalid type", "bogus"), UndefinedValue)



-----------------------------------------------------------------------------
(* C16: validation and the engine                                            *)

ValidationMsgs ==
  {"invalid arguments length", "invalid \"storeName\"", "invalid \"ops\"", "invalid op",
   "invalid type"}

\* the caller holds a promise rejected for a validation error
RejectedForValidation == delivered.state = "rejected" /\ delivered.err.msg \in ValidationMsgs

\* C16 as stated: when a call is rejected for a validation error in any unit of the
\* plan, the engine has not been touched: no transaction was opened and no request
\* was dispatched or executed
C16_Original == RejectedForValidation => Events({"open", "dispatch", "done"}) = {}



-----------------------------------------------------------------------------
(* C17: the canonical form of a keyed mapping                                *)

\* the tombstone marker: the one-character string \0
Tombstone == Str(<<"NUL">>)

\* text that begins with the tombstone character
BeginsWithTombstone(v) == v.kind = "str" /\ Len(v.chars) > 0 /\ Head(v.chars) = "NUL"

\* descriptor op is what the rule of the claim makes of the entry <<k, v>>
FollowsMappingRule(op, k, v) ==
  /\ op.kind = "op" /\ op.key = k
  /\ IF v = Tombstone THEN op.type = "del"
     ELSE IF BeginsWithTombstone(v)
     THEN op.type = "put" /\ op.value = Str(SubSeq(v.chars, 2, Len(v.chars)))
     ELSE op.type = "put" /\ op.value = v

\* ops is the canonical form of the mapping: one operation per key, in order
CanonicalOfMapping(ops, mapping) ==
  /\ Len(ops) = Len(mapping.items)
  /\ \A j \in DOMAIN ops : FollowsMappingRule(ops[j], mapping.items[j].key, mapping.items[j].value)

\* the canonicalizer follows the rule on every generated mapping
RuleHoldsOfMappings ==
  \A mapping \in ObjectLists :
    LET canon == ValidateAndCanonicalizeOps(mapping)
    IN  canon.ok /\ CanonicalOfMapping(canon.ops, mapping)

-----------------------------------------------------------------------------
(* C18: null in object notation                                              *)

\* C18 as stated: batch(db, "books", {1: null, 2: null, 3: record}) on a store that
\* holds the keys 1, 2 and 3 deletes 1 and 2: once the call has resolved and the
\* transaction is complete only key 3 remains, and the results of 1 and 2 are
\* undefined
C18_Original ==
  /\ args.entry = "batch" /\ args.ops = NullDeletes /\ before = ThreeBooks
  /\ delivered.state = "resolved" /\ txState = "complete"
  => /\ DOMAIN store["books"] = {"3"}
     /\ delivered.value = ListValue(<<Undef, Undef, "3">>)



-----------------------------------------------------------------------------
(* C19: shorthand-by-type elements                                           *)

\* every descriptor of every shorthand element tagged with its type, flattened in
\* place and in order
RECURSIVE Flattened(_)
Flattened(items) ==
  IF items = << >> THEN << >>
  ELSE (IF Head(items).kind = "short" THEN TagOpers(Head(items).type, Head(items).opers)
        ELSE << Head(items) >>) \o Flattened(Tail(items))

\* a sequence of descriptors and shorthand elements of known types, with at least
\* one shorthand element
ValidWithShorthand(list) ==
  /\ list.form = "array"
  /\ \A i \in DOMAIN list.items :
       list.items[i].kind \in {"op", "short"} /\ list.items[i].type \in OpTypes
  /\ \E i \in DOMAIN list.items : list.items[i].kind = "short"

\* C19 as stated: the list transactionalBatch works on for a sequence with shorthand
\* elements is the flattened list, with no shorthand element left unexpanded,
\* whatever the number of shorthand elements and of descriptors per element
C19_Original ==
  /\ phase = "called" /\ args.entry = "transactionalBatch" /\ WellFormedCall
  /\ ValidWithShorthand(GivenList) /\ <<1, 1>> \in DOMAIN ctx
  => ctx[<<1, 1>>].ops = Flattened(GivenList.items)



-----------------------------------------------------------------------------
(* C20: what batch resolves with                                             *)

\* a non-empty sequence of add and put descriptors
PlainWrites(list) ==
  /\ list.form = "array" /\ list.items # << >>
  /\ \A i \in DOMAIN list.items : list.items[i].kind = "op" /\ list.items[i].type \in {"add", "put"}

\* nothing has failed: no request error, no constraint, no conflict, no abort
NothingFailed == Events({"error", "constraint", "conflict", "abort"}) = {}

\* C20 as stated: for a valid list of which no operation fails, and every combination
\* of parallel and resolveEarly, batch does not reject, and what it resolves with is
\* the result list of the store
C20_Original ==
  /\ args.entry = "batch" /\ WellFormedCall /\ PlainWrites(args.ops) /\ NothingFailed
  => /\ delivered.state # "rejected"
     /\ delivered.state = "resolved" => delivered.value.kind = "list"



-----------------------------------------------------------------------------
(* C21: the one transaction of a call                                        *)

\* the set of the elements of a sequence
Range(seq) == {seq[i] : i \in DOMAIN seq}

\* the store names of all Store-Ops Units of the plan
PlanStores ==
  UNION {{plan[ct].stores[si][1] : si \in DOMAIN plan[ct].stores} : ct \in DOMAIN plan}

\* every request on the queue and every callback called uses transaction id
AllUse(id) ==
  /\ \A i \in DOMAIN queue : queue[i].ct > 0 => queue[i].tx = id
  /\ \A n \in DOMAIN calls : calls[n].tx = id

\* the call was given a transaction of the caller's
GivenTransaction == args.handle = "tx"

\* exactly one transaction was opened, readwrite, on the stores of the plan and the
\* extra stores, and it is the one the call works on
OneOpened ==
  /\ Len(opened) = 1 /\ opened[1].mode = "readwrite"
  /\ Range(opened[1].scope) = PlanStores \cup Range(opts.extraStores)
  /\ tr = Transaction(1, opened[1].scope, "readwrite")
  /\ AllUse(1)

\* C21 as stated: given a database, a call of transactionalBatch opens exactly one
\* readwrite transaction, on the store names of the plan plus extraStores, and
\* works on it throughout; given a transaction it opens none and works on that one
C21_Original ==
  phase = "called" =>
    IF GivenTransaction THEN opened = << >> /\ tr = Supplied /\ AllUse(0) ELSE OneOpened

\* the list of store names the transaction is asked for is empty
NoStoreNamed == PlanStores \cup Range(opts.extraStores) = {}

\* C21: given a database, a call of transactionalBatch whose plan names a store in a
\* Store-Ops Unit or in extraStores opens exactly one readwrite transaction, on
\* exactly these stores, and every request and every Task callback of the call uses
\* it; when no store is named at all the engine refuses the transaction, none is
\* opened and the call throws; given a transaction, none is opened and the one
\* supplied is used for every request and callback
C21_OneTransaction ==
  phase = "called" =>
    IF GivenTransaction THEN opened = << >> /\ tr = Supplied /\ AllUse(0)
    ELSE IF NoStoreNamed
    THEN opened = << >> /\ tr = Database /\ delivered.state = "threw"
         /\ queue = << >> /\ calls = << >>
    ELSE OneOpened

\* a call on a database with a Task Unit, a Store-Ops Unit and an extra store: the
\* callback was called with, and a request of the unit placed on, the one
\* transaction opened
C21_Witness ==
  /\ phase = "called" /\ Len(opened) = 1 /\ opts.extraStores # << >>
  /\ \E n \in DOMAIN calls : calls[n].tx = 1
  /\ \E i \in DOMAIN queue : queue[i].ct > 0 /\ queue[i].tx = 1



-----------------------------------------------------------------------------
(* C22: getStoreNames                                                        *)

\* no element of the sequence occurs twice
NoRepeat(seq) == \A i, j \in DOMAIN seq : seq[i] = seq[j] => i = j

\* C22 as stated: getStoreNames returns the store names the Store-Ops Units of the
\* plan refer to, every one of them and nothing from Task Units, and no name twice
\* even when several units refer to the same store
C22_Original ==
  listed.called => Range(listed.value) = PlanStores /\ NoRepeat(listed.value)



-----------------------------------------------------------------------------
(* C23: copy and move in serial mode                                         *)

\* the contents of a store after the operations of a list have been applied one
\* after the other: a copy stores at its key the record that is at its source when
\* its turn comes, a move does the same and then empties the source; ok tells that
\* every source held a record at its turn
RECURSIVE AppliedInTurn(_, _)
AppliedInTurn(items, contents) ==
  IF items = << >> THEN [ok |-> TRUE, contents |-> contents]
  ELSE LET op == Head(items) IN
    IF op.type \in {"add", "put"}
    THEN AppliedInTurn(Tail(items), Bind(contents, op.key, op.value))
    ELSE IF op.type = "del" THEN AppliedInTurn(Tail(items), Unbind(contents, op.key))
    ELSE IF op.value.p \notin DOMAIN contents THEN [ok |-> FALSE, contents |-> contents]
    ELSE LET copied == Bind(contents, op.key, contents[op.value.p]) IN
         AppliedInTurn(Tail(items),
                       IF op.type = "move" THEN Unbind(copied, op.value.p) ELSE copied)

\* a sequence of add, put, del, copy and move descriptors with a copy or a move
HasCopyOrMove(list) ==
  /\ list.form = "array"
  /\ \A i \in DOMAIN list.items :
       list.items[i].kind = "op" /\ list.items[i].type \in {"add", "put", "del", "copy", "move"}
  /\ \E i \in DOMAIN list.items : list.items[i].type \in {"copy", "move"}

\* the call ran to the completion of its transaction and nothing failed
CompletedUnfailed ==
  /\ txState = "complete" /\ outcome.state = "resolved"
  /\ Events({"error", "constraint", "conflict", "abort", "reject"}) = {}

\* C23: in serial mode with no failure, the store ends as if the operations of the
\* list had been applied one after the other, where a Copy {key: dest, value: src}
\* stores at dest the record that is at src when its turn comes and leaves src as it
\* is, and a Move stores that record at dest and leaves src without a record
C23_CopyMoveInTurn ==
  /\ phase = "called" /\ WellFormedCall /\ ~opts.parallel /\ HasCopyOrMove(GivenList)
  /\ AppliedInTurn(GivenList.items, before["books"]).ok
  /\ CompletedUnfailed
  => store["books"] = AppliedInTurn(GivenList.items, before["books"]).contents

\* the serial call on [move 2 from 4, copy 3 from 2] is complete: the book of key 4
\* is now under 2 and under 3, and key 4 is empty
C23_Witness ==
  /\ ~opts.parallel /\ GivenList = MoveThenCopy /\ CompletedUnfailed
  /\ DOMAIN store["books"] = {"2", "3"}
  /\ store["books"]["2"] = before["books"]["4"] /\ store["books"]["3"] = before["books"]["4"]



-----------------------------------------------------------------------------
(* C24: the list of the tests of move and copy                               *)

\* the transaction of the call is over
TransactionOver == txState \in {"complete", "aborted"}

\* C24 as stated: for [put 1, move 2 from 1, copy 3 from 2] on an empty store, when
\* the engine fails no request, the batch resolves with the result list
\* [1, 2, undefined, 3] and the store ends with exactly two records, in serial and in
\* parallel mode alike
C24_Original ==
  /\ phase = "called" /\ WellFormedCall /\ GivenList = MoveCopy /\ before = InitialStore
  /\ ~opts.resolveEarly /\ Events({"error"}) = {} /\ TransactionOver
  => /\ outcome.state = "resolved"
     /\ <<1, "books">> \in DOMAIN storeResults
     /\ storeResults[<<1, "books">>] = <<"1", "2", Undef, "3">>
     /\ Cardinality(DOMAIN store["books"]) = 2



-----------------------------------------------------------------------------
(* C25: the length of a store's result list                                  *)

\* the number of Move descriptors of a canonical list
Moves(ops) == Cardinality({i \in DOMAIN ops : ops[i].type = "move"})

\* the call resolved on the completion of its transaction and nothing failed
ResolvedOnComplete == phase = "called" /\ ~opts.resolveEarly /\ CompletedUnfailed

\* store si of unit ct is in the unit's result mapping with one entry for every
\* operation of the submitted list and one more for every Move
ListedInFull(ct, si) ==
  LET rk == <<ct, StoreNameOf(ct, si)>>
      ops == Canonical(ct, si).ops
  IN  /\ rk \in DOMAIN storeResults
      /\ Len(storeResults[rk]) = Len(ops) + Moves(ops)

-----------------------------------------------------------------------------
(* C26: the order of a store's result list                                   *)

\* e.target.result of a successful write: the primary key for add and put,
\* undefined for delete and clear
ResultOfWrite(type, key) == IF type \in {"add", "put"} THEN key ELSE Undef

\* the results of the write requests of the named store of unit ct, in the order in
\* which their success handlers ran
InCompletionOrder(ct, storeName) ==
  LET evs == SelectSeq(trace, LAMBDA e : e.ev = "success" /\ e.ct = ct /\ e.si >= 1
                                         /\ StoreNameOf(ct, e.si) = storeName)
  IN  [i \in 1..Len(evs) |-> ResultOfWrite(evs[i].type, evs[i].key)]

\* every entry of the result list of store si of unit ct is the result of the
\* operation at its position in the list as expanded so far
InListOrder(ct, si) ==
  LET rk == <<ct, StoreNameOf(ct, si)>>
      ops == ctx[<<ct, si>>].ops
  IN  rk \in DOMAIN storeResults =>
        /\ Len(storeResults[rk]) <= Len(ops)
        /\ \A i \in 1..Len(storeResults[rk]) :
             /\ ops[i].type \in {"add", "put", "del", "clear"}
             /\ storeResults[rk][i] = ResultOfWrite(ops[i].type, ops[i].key)

\* C26: a store's result list is filled in completion order of its write requests;
\* in serial mode the entry at position i is the result of the operation at
\* position i of the final (post-expansion) list: the primary key for add and put,
\* undefined for del and clear
C26_CompletionOrder ==
  /\ \A rk \in DOMAIN storeResults : storeResults[rk] = InCompletionOrder(rk[1], rk[2])
  /\ Serial => \A at \in DOMAIN ctx : InListOrder(at[1], at[2])

\* a serial call on [put, move, copy] has completed: the list as expanded holds the
\* injected del at position 3, and the result there is undefined
C26_Witness ==
  /\ Serial /\ txState = "complete"
  /\ <<1, 1>> \in DOMAIN ctx /\ <<1, "books">> \in DOMAIN storeResults
  /\ Len(ctx[<<1, 1>>].ops) = 4
  /\ ctx[<<1, 1>>].ops[3].type = "del"
  /\ storeResults[<<1, "books">>] = <<"1", "2", Undef, "3">>



-----------------------------------------------------------------------------
(* C27: the delete of a parallel move                                        *)

\* position p of the history holds the dispatch of the delete a Move injected: the
\* operation before it in the submitted list is a Move
MoveDelete(p) ==
  LET e == trace[p] IN
  /\ e.ev = "dispatch" /\ e.type = "delete" /\ e.opIndex >= 2
  /\ plan[e.ct].kind = "ops"
  /\ LET ops == Canonical(e.ct, e.si).ops
     IN  e.opIndex - 1 <= Len(ops) /\ ops[e.opIndex - 1].type = "move"

\* the put of the Move whose delete is at p has been dispatched before p
PutBefore(p) ==
  \E q \in 1..(p - 1) :
    /\ trace[q].ev = "dispatch" /\ trace[q].type = "put"
    /\ trace[q].ct = trace[p].ct /\ trace[q].si = trace[p].si
    /\ trace[q].opIndex = trace[p].opIndex - 1

\* C27 as stated: in parallel mode the delete request of a Move is never dispatched
\* before the put request of the same Move, whether or not the validator is engaged
\* for that put
C27_Original ==
  opts.parallel => \A p \in DOMAIN trace : MoveDelete(p) => PutBefore(p)



-----------------------------------------------------------------------------
(* C28: the slot of a Task Unit                                              *)

\* the calls the orchestrator made for the callback of unit ct
CallsFor(ct) == {i \in DOMAIN calls : calls[i].ct = ct}

\* what the callback of a task returns: the deferred object, or undefined
Returned(ct) == IF plan[ct].does \in {"deferred", "deferredReq"} THEN "deferred" ELSE Undef

\* C28: a Task Unit's slot in the Result Tree holds exactly the value returned by
\* its callback (the deferred object itself when it returns one, in serial and in
\* parallel mode); when adapterCb is supplied the orchestrator never calls the
\* callback directly but calls adapterCb(transaction, callback) once, and the slot
\* holds what adapterCb returned; the slot of a callback that does not throw is
\* filled as soon as the call returns
C28_TaskSlot ==
  \A ct \in 1..Len(plan) :
    plan[ct].kind = "task" =>
      /\ ct \in DOMAIN results => CallsFor(ct) # {}
      /\ CallsFor(ct) # {} /\ plan[ct].does \in {"plain", "deferred"} => ct \in DOMAIN results
      /\ Cardinality(CallsFor(ct)) <= 1
      /\ \A i \in CallsFor(ct) :
           /\ calls[i].tx = tr.id
           /\ calls[i].fn = IF opts.adapterCb THEN "adapterCb" ELSE "callback"
      /\ ct \in DOMAIN results =>
           /\ results[ct].kind = "task"
           /\ results[ct].ret = IF opts.adapterCb THEN "adapted" ELSE Returned(ct)

\* a parallel call with adapterCb has completed: the slot of the task that returns
\* a deferred value holds what adapterCb returned, and the slot of the unit after it
\* holds a result mapping
C28_Witness ==
  /\ opts.adapterCb /\ opts.parallel /\ txState = "complete"
  /\ Len(plan) = 2 /\ plan[1] = Task("deferred") /\ plan[2].kind = "ops"
  /\ DOMAIN results = {1, 2}
  /\ results[1].ret = "adapted"
  /\ \E i \in CallsFor(1) : calls[i].fn = "adapterCb"



-----------------------------------------------------------------------------
(* C29: the first failure                                                    *)

\* position q of the history holds a step the orchestrator takes for the batch: the
\* dispatch of a request on a store, or the invocation of a Task callback
OrchestratorStep(q) ==
  \/ trace[q].ev = "dispatch" /\ trace[q].ct >= 1 /\ trace[q].si >= 1
  \/ trace[q].ev = "invoke"

\* no step of the orchestrator follows the rejection of the batch
NothingAfterReject ==
  \A p \in Events({"reject"}) : \A q \in (p + 1)..Len(trace) : ~OrchestratorStep(q)

\* C29 as stated: once the batch has rejected, the orchestrator dispatches no
\* further store request and invokes no further Task callback, in serial and in
\* parallel mode, follow-up requests of pending Move and Copy reads included
C29_Original == NothingAfterReject



-----------------------------------------------------------------------------
(* C30: when a store's operations are finished                               *)

\* the operations of the submitted list of store si of unit ct
OriginalCount(ct, si) == Len(Canonical(ct, si).ops)

\* the deletions the expansion of its Moves injects
InjectedCount(ct, si) == Moves(Canonical(ct, si).ops)

\* the write requests of store si of unit ct that have succeeded
Succeeded(ct, si) == IF <<ct, si>> \in DOMAIN ctx THEN ctx[<<ct, si>>].successCt ELSE 0

\* the result mapping of unit ct is in the Result Tree
Published(ct) == ct \in DOMAIN results /\ results[ct].kind = "ops"

\* execution has gone on from store si of unit ct to the next store or unit
Advanced(ct, si) == (ct \in DOMAIN storeIter /\ storeIter[ct] > si) \/ iter > ct

\* the Store-Ops Units that have been begun
BegunUnits == {ct \in 1..iter : plan[ct].kind = "ops"}

\* a mapping is published when the successes of one of the unit's stores have
\* reached the store's original count plus `extra` for every injected deletion
\* (extra is 1 or 0), and in serial mode execution goes on from a store only then
FinishedAt(extra) ==
  \A ct \in BegunUnits :
    /\ Published(ct) <=>
         \E si \in 1..Len(plan[ct].stores) :
           /\ Succeeded(ct, si) >= 1
           /\ Succeeded(ct, si) >= OriginalCount(ct, si) + extra * InjectedCount(ct, si)
    /\ Serial =>
         \A si \in 1..Len(plan[ct].stores) :
           Advanced(ct, si) =>
             Succeeded(ct, si) = OriginalCount(ct, si) + InjectedCount(ct, si)

\* C30 as stated: a store's operations are treated as finished (the unit's result
\* mapping is published and, in serial mode, execution advances) exactly when the
\* number of succeeded write requests equals the original operation count plus the
\* number of deletions injected by Move expansion, in serial and in parallel mode
C30_Original == FinishedAt(1)

\* C30: in serial mode a store's operations are treated as finished exactly when the
\* number of succeeded write requests equals the original operation count plus the
\* number of injected deletions; in parallel mode the mapping is published when the
\* number reaches the original operation count alone, while the requests of the
\* injected deletions are outstanding
C30_FinishedCount == IF Serial THEN FinishedAt(1) ELSE FinishedAt(0)

\* a parallel call on [put, move, copy]: three requests have succeeded, the fourth
\* is pending, and the mapping is published
C30_Witness ==
  /\ opts.parallel /\ Len(plan) >= 1
  /\ plan[1] = StoreOps(<< <<"books", MoveCopy>> >>)
  /\ Succeeded(1, 1) = 3
  /\ Pending({"write"}) # {}
  /\ Published(1)



-----------------------------------------------------------------------------
(* C31: one write request per operation                                      *)

\* the write requests of the given type and key dispatched for store si of unit ct
Issued(ct, si, type, key) ==
  Cardinality({p \in WriteDispatches : /\ trace[p].ct = ct /\ trace[p].si = si
                                        /\ trace[p].type = type /\ trace[p].key = key})

\* the write requests of the given type and key a list stands for: an add or put of
\* its key, a delete for a del, a clear, a put of the destination key for a Move or
\* Copy, and a delete of the source key for a Move
Expected(ops, type, key) ==
  Cardinality({i \in DOMAIN ops :
     \/ type \in {"add", "put"} /\ ops[i].type = type /\ ops[i].key = key
     \/ type = "put" /\ ops[i].type \in {"move", "copy"} /\ ops[i].key = key
     \/ type = "delete" /\ ops[i].type = "del" /\ ops[i].key = key
     \/ type = "clear" /\ ops[i].type = "clear" /\ key = Undef})
  + Cardinality({i \in DOMAIN ops :
       /\ type = "delete" /\ ops[i].type = "move"
       /\ ops[i].value.kind = "prim" /\ ops[i].value.p = key})

\* the keys of the requests dispatched and of the operations submitted
KeysAbout(ops) ==
  {trace[p].key : p \in WriteDispatches}
    \cup {ops[i].key : i \in DOMAIN ops}
    \cup {ops[i].value.p : i \in {j \in DOMAIN ops : ops[j].type = "move"}}
    \cup {Undef}

\* the stores of Store-Ops Units whose first request has been placed
BegunStores == {at \in DOMAIN ctx : Begun(at[1], at[2], 1)}

\* a pending add or put carries the key and value of an add or put of the submitted
\* list, or the destination key of a Move or Copy
CarriesItsOwn(req) ==
  LET ops == Canonical(req.ct, req.si).ops IN
  \E i \in DOMAIN ops :
    /\ ops[i].key = req.key
    /\ \/ ops[i].type = req.type /\ ops[i].value = req.val
       \/ ops[i].type \in {"move", "copy"} /\ req.type = "put"

\* C31: absent failures, every operation of a store's submitted list gives rise to
\* exactly one write request (add, put, delete or clear) carrying that operation's
\* own key and value, and every Move additionally to exactly one delete of its
\* source key; no operation is issued twice or skipped, in serial and in parallel
\* mode
C31_OneRequestEach ==
  /\ \A i \in Pending({"write"}) :
       queue[i].ct >= 1 /\ queue[i].type \in {"add", "put"} => CarriesItsOwn(queue[i])
  /\ phase = "called" /\ txState = "complete" /\ NothingFailed /\ Events({"reject"}) = {}
     => \A at \in BegunStores :
          LET ops == Canonical(at[1], at[2]).ops IN
          \A type \in WriteTypes : \A key \in KeysAbout(ops) :
            Issued(at[1], at[2], type, key) = Expected(ops, type, key)

\* a parallel call on [move 2 from 4, copy 3 from 2] has completed with no failure:
\* one put of key 2, one delete of key 4 and one put of key 3 were dispatched
C31_Witness ==
  /\ opts.parallel /\ phase = "called" /\ WellFormedCall /\ GivenList = MoveThenCopy
  /\ txState = "complete" /\ NothingFailed /\ Events({"reject"}) = {}
  /\ Issued(1, 1, "put", "2") = 1
  /\ Issued(1, 1, "delete", "4") = 1
  /\ Issued(1, 1, "put", "3") = 1



-----------------------------------------------------------------------------
(* C32: every call settles                                                   *)

\* the units of the plans run under fairness: tasks that return undefined, return a
\* deferred value that settles on its own, or abort the transaction, and one put
LiveUnits ==
  { Task("plain"), Task("deferred"), Task("abort"), StoreOps(<< <<"books", PutX>> >>) }

LivePlans == UNION {[1..n -> LiveUnits] : n \in 0..MaxUnits}

LiveInit ==
  /\ opts \in [parallel : BOOLEAN, resolveEarly : BOOLEAN,
               extraStores : {<<"storage">>}, adapterCb : {FALSE}]
  /\ engaged = FALSE
  /\ plan \in LivePlans
  /\ phase = "idle"
  /\ iter = 0
  /\ storeIter = << >>
  /\ ctx = << >>
  /\ storeResults = << >>
  /\ results = << >>
  /\ queue = << >>
  /\ checks = << >>
  /\ before = InitialStore
  /\ store = before
  /\ txState = "active"
  /\ outcome = [state |-> "pending", err |-> NoError]
  /\ deferreds = << >>
  /\ caller = "none"
  /\ faults = 0
  /\ trace = << >>
  /\ args = PlanCall
  /\ delivered = NotCalled
  /\ tr = Database
  /\ opened = << >>
  /\ calls = << >>
  /\ listed = NotAsked

\* the environment keeps going: every dispatched request is answered (Deliver),
\* every deferred value a task returned settles (TaskSettle), and the transaction
\* completes or aborts (TxComplete, TxAbort)
LiveSpec ==
  /\ LiveInit /\ [][Next]_vars
  /\ WF_vars(Deliver) /\ WF_vars(TaskSettle) /\ WF_vars(TxComplete) /\ WF_vars(TxAbort)

\* C32 as stated: when every dispatched request eventually succeeds or fails, every
\* deferred value eventually settles and the transaction eventually completes or
\* aborts, every call of transactionalBatch eventually resolves or rejects, for
\* every combination of the parallel and resolveEarly options
C32_Original == (phase = "called") ~> (outcome.state # "pending")



-----------------------------------------------------------------------------
(* C33: a deferred value that fails                                          *)

\* the deferred value task ct returned has failed, at position p of the history
FailedAt(ct, p) ==
  /\ ct \in DOMAIN deferreds /\ deferreds[ct] = "rejected"
  /\ trace[p].ev = "settle" /\ trace[p].ct = ct

\* C33 as stated: in serial mode, when the deferred value returned by a Task Unit
\* fails, the batch rejects with that failure and does not resolve with a Result
\* Tree
C33_Original ==
  Serial =>
    \A ct \in 1..Len(plan) : \A p \in DOMAIN trace :
      FailedAt(ct, p) =>
        /\ \A q \in (p + 1)..Len(trace) : trace[q].ev # "resolve"
        /\ TransactionOver => outcome.state = "rejected"



-----------------------------------------------------------------------------
(* Stores with a key path and with several unique indexes: transactionalBatch  *)
(* on one list for the magazines store (key path id, unique compound index on *)
(* name and frequency) or for a catalog with two unique indexes                *)

M1 == Mag("1", "M1", "12")

\* a database whose magazines store holds M1 under key 1 and whose catalog holds
\* one entry under key 1
Stocked ==
  [InitialStore EXCEPT !["magazines"] = Bind(EmptyMap, "1", M1),
                       !["catalog"] = Bind(EmptyMap, "1", Entry("i1", "t1"))]

\* puts on magazines: of M1 again without a key, of M1 with the key given and the
\* id left out, of another magazine with M1's name and frequency, of a new magazine
\* followed by M1 again, of magazines whose frequency, or name and frequency, are
\* falsy, and of a new magazine followed by a put of undefined
MagazineLists ==
  { ArrayOps(<< Op("put", Undef, M1) >>),
    ArrayOps(<< Op("put", "1", Mag(Undef, "M1", "12")) >>),
    ArrayOps(<< Op("put", Undef, Mag("2", "M1", "12")) >>),
    ArrayOps(<< Op("put", Undef, Mag("2", "M2", "24")), Op("put", Undef, M1) >>),
    ArrayOps(<< Op("put", Undef, Mag("3", "M1", "0")) >>),
    ArrayOps(<< Op("put", Undef, Mag("3", "", "0")) >>),
    ArrayOps(<< Op("put", Undef, Mag("2", "M2", "24")), Op("put", "3", UndefinedValue) >>) }

\* puts on the catalog: of a new entry, of an entry that repeats the isbn and the
\* title of the entry under key 1, and of an entry with an isbn only
CatalogLists ==
  { ArrayOps(<< Op("put", "2", Entry("i2", "t2")) >>),
    ArrayOps(<< Op("put", "2", Entry("i1", "t1")) >>),
    ArrayOps(<< Op("put", "2", Entry("i2", Undef)), Op("del", "1", UndefinedValue) >>) }

KeyPathPlans ==
  {<< StoreOps(<< <<"magazines", list>> >>) >> : list \in MagazineLists}
    \cup {<< StoreOps(<< <<"catalog", list>> >>) >> : list \in CatalogLists}

KeyPathInit ==
  /\ plan \in KeyPathPlans
  /\ opts \in [parallel : BOOLEAN, resolveEarly : {FALSE},
               extraStores : {<< >>}, adapterCb : {FALSE}]
  /\ engaged \in BOOLEAN
  /\ before \in {InitialStore, Stocked}
  /\ args = PlanCall
  /\ phase = "idle"
  /\ iter = 0
  /\ storeIter = << >>
  /\ ctx = << >>
  /\ storeResults = << >>
  /\ results = << >>
  /\ queue = << >>
  /\ checks = << >>
  /\ store = before
  /\ txState = "active"
  /\ outcome = [state |-> "pending", err |-> NoError]
  /\ deferreds = << >>
  /\ caller = "none"
  /\ faults = 0
  /\ trace = << >>
  /\ delivered = NotCalled
  /\ tr = Database
  /\ opened = << >>
  /\ calls = << >>
  /\ listed = NotAsked

KeyPathNext == Call \/ Deliver \/ TxComplete \/ TxAbort

KeyPathSpec == KeyPathInit /\ [][KeyPathNext]_vars

-----------------------------------------------------------------------------
(* C34: a put that carries its primary key in the value                      *)

\* check c is of a put that omits the explicit key, on a store with a key path, of
\* a record the store held unchanged under the same primary key when the call began
ReissuedPut(c) ==
  LET keyPath == Schema(c.storeName).keyPath IN
  /\ c.type = "put" /\ ~Truthy(c.key)
  /\ keyPath # NoKeyPath
  /\ Field(c.val, keyPath) \in DOMAIN before[c.storeName]
  /\ before[c.storeName][Field(c.val, keyPath)] = c.val

\* the validator has reported a conflict for the operation of check c
ConflictReported(c) ==
  \E p \in Events({"conflict"}) :
    trace[p].ct = c.ct /\ trace[p].si = c.si /\ trace[p].opIndex = c.opIndex

\* C34 as stated: with the validator engaged, a Put that omits the explicit key and
\* carries its primary key in the value's key-path field is checked against that
\* primary key: re-issuing it for a record that already exists under the same
\* primary key with the same unique-index values is not reported as a constraint
\* violation
C34_Original ==
  engaged => \A i \in DOMAIN checks : ReissuedPut(checks[i]) => ~ConflictReported(checks[i])



-----------------------------------------------------------------------------
(* C35: what the validator does                                              *)

\* the positions of the history that hold an event of the given names for the
\* operation of check c
About(c, names, types) ==
  {p \in Events(names) : /\ trace[p].ct = c.ct /\ trace[p].si = c.si
                         /\ trace[p].opIndex = c.opIndex /\ trace[p].type \in types}

\* the lookups placed for check c, those that were answered, and those that failed
Lookups(c) == About(c, {"dispatch"}, {"getKey"})
Answers(c) == About(c, {"done"}, {"getKey"})
Failures(c) == About(c, {"error"}, {"getKey"})

\* the verdicts reported for check c: a conflict, or none
VerdictsOf(c) == About(c, {"conflict", "unique"}, {"add", "put"})

\* the key the validator derives from val for an index is not empty: the field of a
\* simple index is truthy, a component of a compound index is
DerivedKeyNonEmpty(index, val) ==
  \E j \in 1..Len(index.keyPath) : Truthy(Field(val, index.keyPath[j]))

\* lookups are issued only when the validator is engaged, and only for unique
\* indexes whose derived key is not empty
LookupsAsKept ==
  /\ Events({"dispatch"}) # {} /\ ~engaged =>
       \A p \in Events({"dispatch"}) : trace[p].type # "getKey"
  /\ \A i \in Pending({"getKey"}) :
       LET index == Schema(queue[i].storeName).indexes[queue[i].index] IN
       engaged /\ index.unique /\ DerivedKeyNonEmpty(index, queue[i].val)

\* the write of a checked operation is not issued by the validator: it is dispatched
\* only after the verdict that there is no conflict
WriteAfterVerdict ==
  \A i \in DOMAIN checks :
    \A p \in About(checks[i], {"dispatch"}, {"add", "put"}) :
      \E q \in VerdictsOf(checks[i]) : q < p /\ trace[q].ev = "unique"

\* the answers and failures check c had received before position p of the history
AnsweredBefore(c, p) == {q \in Answers(c) \cup Failures(c) : q < p}

\* C35: the validator issues lookups only when the workaround flag is set, and then
\* only for indexes that are unique and whose derived key is non-empty; it never
\* issues a write, delete or clear (the write of a checked operation is dispatched
\* only after the verdict), and it reports its verdict at most once per checked
\* operation, after all of its lookups have answered
C35_LookupsThenOneVerdict ==
  /\ LookupsAsKept
  /\ WriteAfterVerdict
  /\ \A i \in DOMAIN checks :
       /\ Cardinality(VerdictsOf(checks[i])) <= 1
       /\ \A p \in VerdictsOf(checks[i]) :
            Cardinality(AnsweredBefore(checks[i], p)) = Cardinality(Lookups(checks[i]))

\* a checked put on a store with two unique indexes: both lookups answered, then the
\* verdict, then the write
C35_Witness ==
  /\ engaged
  /\ \E i \in DOMAIN checks :
       /\ Cardinality(Lookups(checks[i])) = 2
       /\ Cardinality(Answers(checks[i])) = 2
       /\ VerdictsOf(checks[i]) # {}
       /\ About(checks[i], {"dispatch"}, {"put"}) # {}

====
